---- MODULE Spec2Model ----
(***************************************************************************)
(* State-machine model of the shielded-pool programs of backend-stealf:    *)
(* the incremental Merkle accumulator (merkle_tree.rs), the pure proof     *)
(* verifier, the nullifier registry and the claim/deposit instructions     *)
(* that use it (commitment.rs, denomination.rs, lib.rs), the               *)
(* private_transfer and encrypted_transfer confidential-computation jobs,  *)
(* the stealth-address and amount-encryption functions (stealth.rs,        *)
(* encryption.rs, encrypted_balance.rs), the private_transfer circuit,     *)
(* the deposit and withdraw instructions on a UserAccount, the             *)
(* fixed-amount pool of the private program (shield, anonymous_transfer,   *)
(* unshield_v2) and the stealf_pool program.                               *)
(*                                                                         *)
(* 32-byte hashes are modelled symbolically: a value is a sequence of      *)
(* integers, <<k>> for the 32-byte array filled with byte k, and           *)
(* <<-1>> \o l \o r for the SHA-256 digest of the domain tag, l and r.     *)
(* The encoding is a prefix code, so the modelled hash is collision-free   *)
(* and never equals an input value.                                        *)
(*                                                                         *)
(* An instruction that returns Err is rolled back by the runtime: its      *)
(* action leaves every account unchanged and records the error.            *)
(***************************************************************************)
EXTENDS Integers, Sequences, FiniteSets, TLC

\* ------------------------------------------------------------------ bounds

\* merkle_tree.rs:6 sets 20; the model uses a smaller tree.
MERKLE_TREE_DEPTH == 3

\* commitment.rs:7 sets 100; the model uses a smaller ledger.
MAX_COMMITMENTS == 2

\* The largest vault balance the model lets deposits build up.
MaxVault == 2

\* The latest time the clock of the model reaches.
MaxTime == 2

\* The largest total_deposits and total_withdrawals the model lets a
\* UserAccount or a Pool build up.
MaxTotal == 3

\* stealf_pool lib.rs:152 sets 49 bytes; the model counts account space in
\* units of the 8-byte discriminator and uses a smaller record.
POOL_LEN == 2

\* encrypted_balance.rs:51 sets 100; the model uses a smaller registry.
MAX_ENCRYPTED_BALANCES == 2

\* u64::MAX, scaled down to 7 bits.
U64_MAX == 127

\* A u64 has 8 bytes of 8 bits; the model uses fewer and narrower bytes.
AMOUNT_BYTES == 2
BYTE_BITS == 2

\* private lib.rs:93 and 169: 50_000_000 lamports, the unit of the pool
\* vault of the private program.
FIXED_AMOUNT == 1

VARIABLES
    \* MerkleTree account (merkle_tree.rs:11-28)
    mt_root, mt_next_index, mt_filled_subtrees, mt_zero_hashes,
    \* history: the leaves inserted since the last initialize(), in order
    mt_leaves,
    \* result of the last MerkleTree call: [op, err, val, path], val the
    \* index insert returned and path the proof get_proof returned
    mt_result,
    \* one call of the pure function MerkleTree::verify_proof: its
    \* arguments [leaf, proof, index, root] and its outcome [done, err, val]
    vp_call, vp_out,
    \* NullifierRegistry account (commitment.rs:88-101)
    nr_used, nr_count,
    \* CommitmentTree account (commitment.rs:12-28)
    ct_commitments, ct_count, ct_root,
    \* DenominationPool accounts by pool_id (denomination.rs:70-91)
    pools,
    \* lamports of the vault PDA
    vault,
    \* pending shielded_deposit / shielded_claim computations, each with
    \* the arguments of its submission
    jobs,
    \* result of the last instruction of the ledger: [op, err]
    lg_result,
    \* UserAccount accounts by owner: the fields update_balance writes
    \* (user_registry.rs:7-37)
    ua,
    \* UserAccount.total_deposits and total_withdrawals by owner
    ua_totals,
    \* pending private_transfer computations with their callback accounts
    pt_jobs,
    \* Clock::get()?.unix_timestamp
    clock,
    \* result of the last private_transfer instruction: [op, err]
    pt_result,
    \* EncryptedBalance accounts in the order of their creation
    \* (encrypted_balance.rs:60-89), position index + 1
    eb_records,
    \* EncryptedBalanceRegistry.total_balances
    eb_total_balances,
    \* EncryptedVault.total_locked and the lamports of the vault account
    eb_total_locked, eb_lamports,
    \* result of the last encrypted-balance instruction: [op, err]
    eb_result,
    \* TransferAccount accounts by (sender, computation_offset)
    \* (arcium-private-transfer lib.rs:121-134)
    et_accounts,
    \* pending encrypted_transfer computations
    et_jobs,
    \* result of the last encrypted_transfer instruction: [op, err]
    et_result,
    \* one DenominationPool record that the methods are called on, and the
    \* result of the last call: [op, err]
    dp, dp_result,
    \* one call of the pure key and encryption functions: its arguments
    \* and what it returned
    kx_call, kx_out,
    \* private program: lamports of the pool vault, the
    \* UserCommitmentAccount of each payer (lib.rs:293-302), the pending
    \* computations with their callback accounts, history: how often the
    \* vault paid out for each commitment account, and the result of the
    \* last instruction: [op, err]
    us_vault, us_accounts, us_jobs, us_paid, us_result,
    \* stealf_pool program (stealf_pool lib.rs): the Pool account, its
    \* lamports, the lamports paid to each recipient, and the result of the
    \* last instruction: [op, err]
    sp_pool, sp_lamports, sp_received, sp_result

mt_vars == <<mt_root, mt_next_index, mt_filled_subtrees, mt_zero_hashes,
             mt_leaves, mt_result>>

vp_vars == <<vp_call, vp_out>>

\* Everything outside the MerkleTree account, and outside the verify_proof
\* call.
lg_vars == <<nr_used, nr_count, ct_commitments, ct_count, ct_root, pools,
             vault, jobs, lg_result>>

pt_vars == <<ua, ua_totals, pt_jobs, clock, pt_result>>

eb_vars == <<eb_records, eb_total_balances, eb_total_locked, eb_lamports,
             eb_result>>

et_vars == <<et_accounts, et_jobs, et_result>>

dp_vars == <<dp, dp_result>>

kx_vars == <<kx_call, kx_out>>

us_vars == <<us_vault, us_accounts, us_jobs, us_paid, us_result>>

sp_vars == <<sp_pool, sp_lamports, sp_received, sp_result>>

not_mt_vars == <<vp_vars, lg_vars, pt_vars, eb_vars, et_vars, dp_vars,
                kx_vars, us_vars, sp_vars>>
not_vp_vars == <<mt_vars, lg_vars, pt_vars, eb_vars, et_vars, dp_vars,
                kx_vars, us_vars, sp_vars>>
not_lg_vars == <<mt_vars, vp_vars, pt_vars, eb_vars, et_vars, dp_vars,
                kx_vars, us_vars, sp_vars>>
not_pt_vars == <<mt_vars, vp_vars, lg_vars, eb_vars, et_vars, dp_vars,
                kx_vars, us_vars, sp_vars>>
not_eb_vars == <<mt_vars, vp_vars, lg_vars, pt_vars, et_vars, dp_vars,
                kx_vars, us_vars, sp_vars>>
not_et_vars == <<mt_vars, vp_vars, lg_vars, pt_vars, eb_vars, dp_vars,
                kx_vars, us_vars, sp_vars>>
not_dp_vars == <<mt_vars, vp_vars, lg_vars, pt_vars, eb_vars, et_vars,
                kx_vars, us_vars, sp_vars>>

not_kx_vars == <<mt_vars, vp_vars, lg_vars, pt_vars, eb_vars, et_vars,
                dp_vars, us_vars, sp_vars>>
not_us_vars == <<mt_vars, vp_vars, lg_vars, pt_vars, eb_vars, et_vars,
                dp_vars, kx_vars, sp_vars>>

not_sp_vars == <<mt_vars, vp_vars, lg_vars, pt_vars, eb_vars, et_vars,
                dp_vars, kx_vars, us_vars>>

vars == <<mt_vars, vp_vars, lg_vars, pt_vars, eb_vars, et_vars, dp_vars,
          kx_vars, us_vars, sp_vars>>

\* ------------------------------------------------------------------ hashes

\* [0u8; 32]
ZERO == <<0>>

\* [k; 32] for the leaves the model inserts
LeafValues == {<<0>>, <<1>>}

hash_merkle_node(left, right) == <<-1>> \o left \o right

RECURSIVE Pow2(_)
Pow2(n) == IF n = 0 THEN 1 ELSE 2 * Pow2(n - 1)

\* ------------------------------------------------------------- MerkleTree

\* The vector `zeros` built by initialize(): zeros[0] = 0 and
\* zeros[i] = H(zeros[i-1], zeros[i-1]) for i in 1..DEPTH-1.
\* TLA+ sequences are 1-based: Rust zeros[i] is ComputeZeros(n)[i + 1].
RECURSIVE ComputeZeros(_)
ComputeZeros(n) ==
    IF n = 1 THEN <<ZERO>>
    ELSE LET z == ComputeZeros(n - 1)
         IN  Append(z, hash_merkle_node(z[n - 1], z[n - 1]))

\* Mutant: the root taken from level 0 of the zero hashes.
InitialRoot_level0(zeros) == zeros[1]

\* The root initialize() stores: zeros[MERKLE_TREE_DEPTH - 1].
InitialRoot(zeros) == zeros[MERKLE_TREE_DEPTH]

\* The loop of insert(): levels i..DEPTH-1 (Rust numbering), carrying
\* current_hash, current_index and filled_subtrees.
RECURSIVE InsertClimb(_, _, _, _, _)
InsertClimb(i, current_hash, current_index, filled, zeros) ==
    IF i = MERKLE_TREE_DEPTH THEN [hash |-> current_hash, filled |-> filled]
    ELSE IF current_index % 2 = 0
         THEN InsertClimb(i + 1,
                          hash_merkle_node(current_hash, zeros[i + 1]),
                          current_index \div 2,
                          [filled EXCEPT ![i + 1] = current_hash],
                          zeros)
         ELSE InsertClimb(i + 1,
                          hash_merkle_node(filled[i + 1], current_hash),
                          current_index \div 2,
                          filled,
                          zeros)

\* Mutant: the capacity check off by one.
InsertAllowed_offByOne(next_index) == next_index <= Pow2(MERKLE_TREE_DEPTH)

\* The capacity check of insert(): next_index < 1 << DEPTH.
InsertAllowed(next_index) == next_index < Pow2(MERKLE_TREE_DEPTH)

\* The loop of get_proof(): the path pushed for levels i..DEPTH-1.
RECURSIVE ProofClimb(_, _, _, _, _)
ProofClimb(i, current_index, next_index, filled, zeros) ==
    IF i = MERKLE_TREE_DEPTH THEN <<>>
    ELSE LET sibling ==
                 IF current_index % 2 = 0
                 THEN IF current_index + 1 < (next_index \div Pow2(i))
                      THEN filled[i + 1]
                      ELSE zeros[i + 1]
                 ELSE filled[i + 1]
         IN  <<sibling>> \o ProofClimb(i + 1, current_index \div 2,
                                      next_index, filled, zeros)

\* Mutant: the index check lets index = next_index through.
get_proof_inclusive(index) ==
    IF ~(index <= mt_next_index)
    THEN [err |-> "InvalidLeafIndex", val |-> <<>>]
    ELSE [err |-> "Ok",
          val |-> ProofClimb(0, index, mt_next_index, mt_filled_subtrees,
                             mt_zero_hashes)]

\* get_proof(index) on the current tree: Result<Vec<[u8; 32]>>.
get_proof(index) ==
    IF ~(index < mt_next_index)
    THEN [err |-> "InvalidLeafIndex", val |-> <<>>]
    ELSE [err |-> "Ok",
          val |-> ProofClimb(0, index, mt_next_index, mt_filled_subtrees,
                             mt_zero_hashes)]

\* Mutant: every level pairs with proof[0] instead of proof[i].
RECURSIVE VerifyClimb_firstSibling(_, _, _, _)
VerifyClimb_firstSibling(i, current_hash, current_index, proof) ==
    IF i = MERKLE_TREE_DEPTH THEN current_hash
    ELSE LET sibling == proof[1]
         IN  IF current_index % 2 = 0
             THEN VerifyClimb_firstSibling(
                      i + 1, hash_merkle_node(current_hash, sibling),
                      current_index \div 2, proof)
             ELSE VerifyClimb_firstSibling(
                      i + 1, hash_merkle_node(sibling, current_hash),
                      current_index \div 2, proof)

\* Mutant: the parity of the index is ignored, the node is always the left
\* child.
RECURSIVE VerifyClimb_alwaysLeft(_, _, _, _)
VerifyClimb_alwaysLeft(i, current_hash, current_index, proof) ==
    IF i = MERKLE_TREE_DEPTH THEN current_hash
    ELSE VerifyClimb_alwaysLeft(
             i + 1, hash_merkle_node(current_hash, proof[i + 1]),
             current_index \div 2, proof)

\* The loop of verify_proof(): the hash recomputed over levels i..DEPTH-1.
RECURSIVE VerifyClimb(_, _, _, _)
VerifyClimb(i, current_hash, current_index, proof) ==
    IF i = MERKLE_TREE_DEPTH THEN current_hash
    ELSE LET sibling == proof[i + 1]
         IN  IF current_index % 2 = 0
             THEN VerifyClimb(i + 1, hash_merkle_node(current_hash, sibling),
                              current_index \div 2, proof)
             ELSE VerifyClimb(i + 1, hash_merkle_node(sibling, current_hash),
                              current_index \div 2, proof)

\* verify_proof(leaf, proof, index, root): Result<bool>.
verify_proof(leaf, proof, index, root) ==
    IF Len(proof) # MERKLE_TREE_DEPTH
    THEN [err |-> "InvalidProofLength", val |-> FALSE]
    ELSE [err |-> "Ok", val |-> (VerifyClimb(0, leaf, index, proof) = root)]

get_root == mt_root

\* The account as the tests construct it before initialize().
MtInit ==
    /\ mt_root = ZERO
    /\ mt_next_index = 0
    /\ mt_filled_subtrees = <<>>
    /\ mt_zero_hashes = <<>>
    /\ mt_leaves = <<>>
    /\ mt_result = [op |-> "none", err |-> "Ok", val |-> 0,
                     path |-> <<>>]

MtInitialized == Len(mt_zero_hashes) = MERKLE_TREE_DEPTH

initialize ==
    LET zeros == ComputeZeros(MERKLE_TREE_DEPTH)
    IN  /\ mt_zero_hashes' = zeros
        /\ mt_filled_subtrees' = [i \in 1..MERKLE_TREE_DEPTH |-> ZERO]
        /\ mt_root' = InitialRoot(zeros)
        /\ mt_next_index' = 0
        /\ mt_leaves' = <<>>
        /\ mt_result' = [op |-> "initialize", err |-> "Ok", val |-> 0,
                     path |-> <<>>]
        /\ UNCHANGED not_mt_vars

\* Mutant: the index is read after next_index was incremented.
insert_indexAfter(leaf) ==
    /\ MtInitialized
    /\ UNCHANGED not_mt_vars
    /\ IF ~InsertAllowed(mt_next_index)
       THEN /\ mt_result' = [op |-> "insert", err |-> "MerkleTreeFull", val |-> 0,
                     path |-> <<>>]
            /\ UNCHANGED <<mt_root, mt_next_index, mt_filled_subtrees,
                           mt_zero_hashes, mt_leaves>>
       ELSE LET index == mt_next_index + 1
                r == InsertClimb(0, leaf, mt_next_index, mt_filled_subtrees,
                                 mt_zero_hashes)
            IN  /\ mt_filled_subtrees' = r.filled
                /\ mt_root' = r.hash
                /\ mt_next_index' = mt_next_index + 1
                /\ mt_leaves' = Append(mt_leaves, leaf)
                /\ mt_result' = [op |-> "insert", err |-> "Ok", val |-> index,
                                path |-> <<>>]
                /\ UNCHANGED mt_zero_hashes

insert(leaf) ==
    /\ MtInitialized
    /\ UNCHANGED not_mt_vars
    /\ IF ~InsertAllowed(mt_next_index)
       THEN /\ mt_result' = [op |-> "insert", err |-> "MerkleTreeFull", val |-> 0,
                     path |-> <<>>]
            /\ UNCHANGED <<mt_root, mt_next_index, mt_filled_subtrees,
                           mt_zero_hashes, mt_leaves>>
       ELSE LET index == mt_next_index
                r == InsertClimb(0, leaf, index, mt_filled_subtrees,
                                 mt_zero_hashes)
            IN  /\ mt_filled_subtrees' = r.filled
                /\ mt_root' = r.hash
                /\ mt_next_index' = mt_next_index + 1
                /\ mt_leaves' = Append(mt_leaves, leaf)
                /\ mt_result' = [op |-> "insert", err |-> "Ok", val |-> index,
                                path |-> <<>>]
                /\ UNCHANGED mt_zero_hashes

\* Indices offered to get_proof (a u64): the first and the last position.
ProofIndices == {0, Pow2(MERKLE_TREE_DEPTH) - 1}

\* A call of get_proof(index): &self, so the account is left alone.
get_proof_call(index) ==
    /\ MtInitialized
    /\ LET r == get_proof(index)
       IN  mt_result' = [op |-> "get_proof", err |-> r.err, val |-> index,
                         path |-> r.val]
    /\ UNCHANGED <<mt_root, mt_next_index, mt_filled_subtrees,
                   mt_zero_hashes, mt_leaves>>
    /\ UNCHANGED not_mt_vars

\* ---------------------------------------------- verify_proof as a call

\* Values offered as proof elements: leaves and the level-1 zero hash.
PathValues == LeafValues \cup {hash_merkle_node(ZERO, ZERO)}

\* Indices offered to verify_proof (a u64): the tree's 2^DEPTH positions
\* and as many beyond them.
VerifyIndices == 0..(2 * Pow2(MERKLE_TREE_DEPTH) - 1)

\* No call made.
VpIdle ==
    /\ vp_call = [leaf |-> ZERO, proof |-> <<>>, index |-> 0, root |-> ZERO]
    /\ vp_out = [done |-> FALSE, err |-> "Ok", val |-> FALSE]

\* The arguments of one call: any leaf, proof and index, and a root that is
\* either the one this proof leads to or the all-zero value.
VpInit ==
    /\ \E leaf \in LeafValues, index \in VerifyIndices,
          proof \in [1..MERKLE_TREE_DEPTH -> PathValues],
          good \in BOOLEAN :
            vp_call = [leaf |-> leaf, proof |-> proof, index |-> index,
                       root |-> IF good
                                THEN VerifyClimb(0, leaf, index, proof)
                                ELSE ZERO]
    /\ vp_out = [done |-> FALSE, err |-> "Ok", val |-> FALSE]

VerifyProofCall ==
    /\ ~vp_out.done
    /\ LET r == verify_proof(vp_call.leaf, vp_call.proof, vp_call.index,
                             vp_call.root)
       IN  vp_out' = [done |-> TRUE, err |-> r.err, val |-> r.val]
    /\ UNCHANGED vp_call
    /\ UNCHANGED not_vp_vars

\* ------------------------------------------- private program: the ledger
\* lib.rs of private-transfers/programs/private, with commitment.rs and
\* denomination.rs. Lamports are counted in units of 100_000_000 (0.1 SOL).
\* The commitment tree and the nullifier registry exist from the start
\* (init_commitment_tree and init_nullifier_registry create them once).

\* Opaque 32-byte values offered as nullifier hashes and as commitments.
Nullifiers == {1, 2, 3}
Commitments == {1, 2}

\* Amounts offered to the instructions that take one.
Amounts == {0, 1}

\* Pool ids offered to the pool instructions: one valid, one invalid.
PoolIds == {0, 5}

\* The pool accounts the model holds (seeds: "denomination_pool", pool_id).
PoolAccounts == {0}

\* Offsets a caller may choose for a computation: one, so the ledger has
\* at most one computation pending at a time.
Offsets == {1}

MAX_NULLIFIERS == MAX_COMMITMENTS

\* Mutant: pool_id 5 is taken for the largest pool.
from_id_acceptsFive(pool_id) ==
    CASE pool_id = 0 -> [err |-> "Ok", val |-> "Pool01SOL"]
      [] pool_id = 1 -> [err |-> "Ok", val |-> "Pool05SOL"]
      [] pool_id = 2 -> [err |-> "Ok", val |-> "Pool1SOL"]
      [] pool_id = 3 -> [err |-> "Ok", val |-> "Pool5SOL"]
      [] pool_id = 4 -> [err |-> "Ok", val |-> "Pool10SOL"]
      [] pool_id = 5 -> [err |-> "Ok", val |-> "Pool10SOL"]
      [] OTHER -> [err |-> "InvalidDenomination", val |-> "none"]

\* Denomination::from_id
from_id(pool_id) ==
    CASE pool_id = 0 -> [err |-> "Ok", val |-> "Pool01SOL"]
      [] pool_id = 1 -> [err |-> "Ok", val |-> "Pool05SOL"]
      [] pool_id = 2 -> [err |-> "Ok", val |-> "Pool1SOL"]
      [] pool_id = 3 -> [err |-> "Ok", val |-> "Pool5SOL"]
      [] pool_id = 4 -> [err |-> "Ok", val |-> "Pool10SOL"]
      [] OTHER -> [err |-> "InvalidDenomination", val |-> "none"]

\* Denomination::amount_lamports
amount_lamports(d) ==
    CASE d = "Pool01SOL" -> 1
      [] d = "Pool05SOL" -> 5
      [] d = "Pool1SOL" -> 10
      [] d = "Pool5SOL" -> 50
      [] d = "Pool10SOL" -> 100

\* u64::checked_add and checked_sub: val is meaningful when ok.
checked_add(a, b) == [ok |-> a + b <= U64_MAX, val |-> a + b]
checked_sub(a, b) == [ok |-> a >= b, val |-> a - b]

\* NullifierRegistry::is_used
is_used(used, nullifier) == \E i \in 1..Len(used) : used[i] = nullifier

\* Mutant: the capacity is checked before the presence of the nullifier.
use_nullifier_capacityFirst(used, count, nullifier) ==
    IF ~(Len(used) < MAX_NULLIFIERS)
    THEN [err |-> "NullifierRegistryFull", used |-> used, count |-> count]
    ELSE IF is_used(used, nullifier)
    THEN [err |-> "NullifierAlreadyUsed", used |-> used, count |-> count]
    ELSE [err |-> "Ok", used |-> Append(used, nullifier), count |-> count + 1]

\* Mutant: the nullifier is pushed but count is not incremented.
use_nullifier_noCount(used, count, nullifier) ==
    IF is_used(used, nullifier)
    THEN [err |-> "NullifierAlreadyUsed", used |-> used, count |-> count]
    ELSE IF ~(Len(used) < MAX_NULLIFIERS)
    THEN [err |-> "NullifierRegistryFull", used |-> used, count |-> count]
    ELSE [err |-> "Ok", used |-> Append(used, nullifier), count |-> count]

\* NullifierRegistry::use_nullifier on (used_nullifiers, count)
use_nullifier(used, count, nullifier) ==
    IF is_used(used, nullifier)
    THEN [err |-> "NullifierAlreadyUsed", used |-> used, count |-> count]
    ELSE IF ~(Len(used) < MAX_NULLIFIERS)
    THEN [err |-> "NullifierRegistryFull", used |-> used, count |-> count]
    ELSE [err |-> "Ok", used |-> Append(used, nullifier), count |-> count + 1]

\* CommitmentTree::compute_root: the first commitment, or zero when empty.
compute_root(commitments) ==
    IF Len(commitments) = 0 THEN 0 ELSE commitments[1]

\* Mutant: the index returned is count after the increment.
add_commitment_countAfter(commitments, count, root, commitment) ==
    IF ~(Len(commitments) < MAX_COMMITMENTS)
    THEN [err |-> "CommitmentTreeFull", commitments |-> commitments,
          count |-> count, root |-> root, val |-> 0]
    ELSE LET cs == Append(commitments, commitment)
         IN  [err |-> "Ok", commitments |-> cs, count |-> count + 1,
              root |-> compute_root(cs), val |-> count + 1]

\* CommitmentTree::add_commitment on (commitments, count, root)
add_commitment(commitments, count, root, commitment) ==
    IF ~(Len(commitments) < MAX_COMMITMENTS)
    THEN [err |-> "CommitmentTreeFull", commitments |-> commitments,
          count |-> count, root |-> root, val |-> 0]
    ELSE LET cs == Append(commitments, commitment)
         IN  [err |-> "Ok", commitments |-> cs, count |-> count + 1,
              root |-> compute_root(cs), val |-> count]

\* A pool account that init_denomination_pool has not created yet.
NoPool ==
    [exists |-> FALSE, pool_id |-> 0, amount |-> 0, deposit_count |-> 0,
     claim_count |-> 0, total_deposited |-> 0, total_claimed |-> 0]

\* DenominationPool::initialize: the error and the record it leaves.
pool_initialize(pool, pool_id) ==
    LET d == from_id(pool_id)
    IN  IF d.err # "Ok" THEN [err |-> d.err, pool |-> pool]
        ELSE [err |-> "Ok",
              pool |-> [exists |-> TRUE, pool_id |-> pool_id,
                        amount |-> amount_lamports(d.val),
                        deposit_count |-> 0, claim_count |-> 0,
                        total_deposited |-> 0, total_claimed |-> 0]]

\* Mutant: total_deposited counts deposits instead of lamports.
record_deposit_addsOne(pool) ==
    LET dc == checked_add(pool.deposit_count, 1)
        td == checked_add(pool.total_deposited, 1)
        p1 == [pool EXCEPT !.deposit_count = dc.val]
    IN  IF ~dc.ok THEN [err |-> "Overflow", pool |-> pool]
        ELSE IF ~td.ok THEN [err |-> "Overflow", pool |-> p1]
        ELSE [err |-> "Ok", pool |-> [p1 EXCEPT !.total_deposited = td.val]]

\* DenominationPool::record_deposit: the error and the record it leaves.
record_deposit(pool) ==
    LET dc == checked_add(pool.deposit_count, 1)
        td == checked_add(pool.total_deposited, pool.amount)
        p1 == [pool EXCEPT !.deposit_count = dc.val]
    IN  IF ~dc.ok THEN [err |-> "Overflow", pool |-> pool]
        ELSE IF ~td.ok THEN [err |-> "Overflow", pool |-> p1]
        ELSE [err |-> "Ok", pool |-> [p1 EXCEPT !.total_deposited = td.val]]

\* Mutant: the claim is counted but deposit_count is not reduced.
record_claim_keepsDeposit(pool) ==
    LET cc == checked_add(pool.claim_count, 1)
        tc == checked_add(pool.total_claimed, pool.amount)
        p2 == [pool EXCEPT !.claim_count = cc.val]
    IN  IF ~(pool.deposit_count > 0)
        THEN [err |-> "InsufficientPoolBalance", pool |-> pool]
        ELSE IF ~cc.ok THEN [err |-> "Overflow", pool |-> pool]
        ELSE IF ~tc.ok THEN [err |-> "Overflow", pool |-> p2]
        ELSE [err |-> "Ok", pool |-> [p2 EXCEPT !.total_claimed = tc.val]]

\* DenominationPool::record_claim: the error and the record it leaves.
record_claim(pool) ==
    LET dc == checked_sub(pool.deposit_count, 1)
        cc == checked_add(pool.claim_count, 1)
        tc == checked_add(pool.total_claimed, pool.amount)
        p1 == [pool EXCEPT !.deposit_count = dc.val]
        p2 == [p1 EXCEPT !.claim_count = cc.val]
    IN  IF ~(pool.deposit_count > 0)
        THEN [err |-> "InsufficientPoolBalance", pool |-> pool]
        ELSE IF ~dc.ok THEN [err |-> "Underflow", pool |-> pool]
        ELSE IF ~cc.ok THEN [err |-> "Overflow", pool |-> p1]
        ELSE IF ~tc.ok THEN [err |-> "Overflow", pool |-> p2]
        ELSE [err |-> "Ok", pool |-> [p2 EXCEPT !.total_claimed = tc.val]]

LgInit ==
    /\ nr_used = <<>>
    /\ nr_count = 0
    /\ ct_commitments = <<>>
    /\ ct_count = 0
    /\ ct_root = 0
    /\ pools = [id \in PoolAccounts |-> NoPool]
    /\ vault = 0
    /\ jobs = {}
    /\ lg_result = [op |-> "none", err |-> "Ok"]

\* An instruction that returned Err: the transaction is rolled back.
LgFail(op, err) ==
    /\ lg_result' = [op |-> op, err |-> err]
    /\ UNCHANGED <<nr_used, nr_count, ct_commitments, ct_count, ct_root,
                   pools, vault, jobs>>

LgOk(op) == lg_result' = [op |-> op, err |-> "Ok"]

\* system_program::transfer out of the vault fails when the vault holds
\* less than the amount.
VaultCanPay(amount) == vault >= amount

\* Mutant: the amount is not looked at before the deposit is made.
deposit_with_commitment_noAmountCheck(amount, commitment) ==
    LET r == add_commitment(ct_commitments, ct_count, ct_root, commitment)
    IN  /\ vault + amount <= MaxVault
        /\ UNCHANGED not_lg_vars
        /\ IF r.err # "Ok" THEN LgFail("deposit_with_commitment", r.err)
           ELSE /\ vault' = vault + amount
                /\ ct_commitments' = r.commitments
                /\ ct_count' = r.count
                /\ ct_root' = r.root
                /\ LgOk("deposit_with_commitment")
                /\ UNCHANGED <<nr_used, nr_count, pools, jobs>>

deposit_with_commitment(amount, commitment) ==
    LET r == add_commitment(ct_commitments, ct_count, ct_root, commitment)
    IN  /\ vault + amount <= MaxVault
        /\ UNCHANGED not_lg_vars
        /\ IF ~(amount > 0) THEN LgFail("deposit_with_commitment", "InvalidAmount")
           ELSE IF r.err # "Ok" THEN LgFail("deposit_with_commitment", r.err)
           ELSE /\ vault' = vault + amount
                /\ ct_commitments' = r.commitments
                /\ ct_count' = r.count
                /\ ct_root' = r.root
                /\ LgOk("deposit_with_commitment")
                /\ UNCHANGED <<nr_used, nr_count, pools, jobs>>

claim_with_proof(plaintext_amount, nullifier_hash) ==
    LET r == use_nullifier(nr_used, nr_count, nullifier_hash)
    IN  /\ IF ~(plaintext_amount > 0)
           THEN LgFail("claim_with_proof", "InvalidAmount")
           ELSE IF is_used(nr_used, nullifier_hash)
           THEN LgFail("claim_with_proof", "NullifierAlreadyUsed")
           ELSE IF r.err # "Ok" THEN LgFail("claim_with_proof", r.err)
           ELSE IF ~VaultCanPay(plaintext_amount)
           THEN LgFail("claim_with_proof", "InsufficientFunds")
           ELSE /\ nr_used' = r.used
                /\ nr_count' = r.count
                /\ vault' = vault - plaintext_amount
                /\ LgOk("claim_with_proof")
                /\ UNCHANGED <<ct_commitments, ct_count, ct_root, pools, jobs>>
        /\ UNCHANGED not_lg_vars

init_denomination_pool(pool_id) ==
    /\ UNCHANGED not_lg_vars
    /\ IF from_id(pool_id).err # "Ok"
       THEN LgFail("init_denomination_pool", from_id(pool_id).err)
       ELSE IF pools[pool_id].exists
       THEN LgFail("init_denomination_pool", "AccountAlreadyInUse")
       ELSE LET r == pool_initialize(pools[pool_id], pool_id)
            IN  IF r.err # "Ok" THEN LgFail("init_denomination_pool", r.err)
                ELSE /\ pools' = [pools EXCEPT ![pool_id] = r.pool]
                     /\ LgOk("init_denomination_pool")
                     /\ UNCHANGED <<nr_used, nr_count, ct_commitments,
                                    ct_count, ct_root, vault, jobs>>

\* The pool account of the instruction is missing: no account was created
\* for an invalid pool_id, or init_denomination_pool has not run.
PoolMissing(pool_id) ==
    \/ pool_id \notin PoolAccounts
    \/ ~pools[pool_id].exists

deposit_to_pool(pool_id, commitment) ==
    /\ UNCHANGED not_lg_vars
    /\ IF PoolMissing(pool_id)
       THEN LgFail("deposit_to_pool", "AccountNotInitialized")
       ELSE LET d == from_id(pool_id)
                amount == amount_lamports(d.val)
                t == add_commitment(ct_commitments, ct_count, ct_root,
                                    commitment)
                p == record_deposit(pools[pool_id])
            IN  IF d.err # "Ok" THEN LgFail("deposit_to_pool", d.err)
                ELSE IF t.err # "Ok" THEN LgFail("deposit_to_pool", t.err)
                ELSE IF p.err # "Ok" THEN LgFail("deposit_to_pool", p.err)
                ELSE /\ vault + amount <= MaxVault
                     /\ vault' = vault + amount
                     /\ ct_commitments' = t.commitments
                     /\ ct_count' = t.count
                     /\ ct_root' = t.root
                     /\ pools' = [pools EXCEPT ![pool_id] = p.pool]
                     /\ LgOk("deposit_to_pool")
                     /\ UNCHANGED <<nr_used, nr_count, jobs>>

\* Mutant: the error of record_claim is dropped, so the nullifier and the
\* transfer issued before it are kept.
claim_from_pool_ignoresRecordClaim(pool_id, nullifier_hash) ==
    /\ IF PoolMissing(pool_id)
       THEN LgFail("claim_from_pool", "AccountNotInitialized")
       ELSE LET d == from_id(pool_id)
                amount == amount_lamports(d.val)
                r == use_nullifier(nr_used, nr_count, nullifier_hash)
                p == record_claim(pools[pool_id])
            IN  IF d.err # "Ok" THEN LgFail("claim_from_pool", d.err)
                ELSE IF is_used(nr_used, nullifier_hash)
                THEN LgFail("claim_from_pool", "NullifierAlreadyUsed")
                ELSE IF r.err # "Ok" THEN LgFail("claim_from_pool", r.err)
                ELSE IF ~VaultCanPay(amount)
                THEN LgFail("claim_from_pool", "InsufficientFunds")
                ELSE /\ nr_used' = r.used
                     /\ nr_count' = r.count
                     /\ vault' = vault - amount
                     /\ pools' = [pools EXCEPT ![pool_id] = p.pool]
                     /\ LgOk("claim_from_pool")
                     /\ UNCHANGED <<ct_commitments, ct_count, ct_root, jobs>>
    /\ UNCHANGED not_lg_vars

claim_from_pool(pool_id, nullifier_hash) ==
    /\ IF PoolMissing(pool_id)
       THEN LgFail("claim_from_pool", "AccountNotInitialized")
       ELSE LET d == from_id(pool_id)
                amount == amount_lamports(d.val)
                r == use_nullifier(nr_used, nr_count, nullifier_hash)
                p == record_claim(pools[pool_id])
            IN  IF d.err # "Ok" THEN LgFail("claim_from_pool", d.err)
                ELSE IF is_used(nr_used, nullifier_hash)
                THEN LgFail("claim_from_pool", "NullifierAlreadyUsed")
                ELSE IF r.err # "Ok" THEN LgFail("claim_from_pool", r.err)
                ELSE IF ~VaultCanPay(amount)
                THEN LgFail("claim_from_pool", "InsufficientFunds")
                ELSE IF p.err # "Ok" THEN LgFail("claim_from_pool", p.err)
                ELSE /\ nr_used' = r.used
                     /\ nr_count' = r.count
                     /\ vault' = vault - amount
                     /\ pools' = [pools EXCEPT ![pool_id] = p.pool]
                     /\ LgOk("claim_from_pool")
                     /\ UNCHANGED <<ct_commitments, ct_count, ct_root, jobs>>
    /\ UNCHANGED not_lg_vars

\* queue_computation: the computation account of an offset exists while
\* its job is pending, so a pending offset cannot be queued again.
OffsetFree(offset) == \A j \in jobs : j.offset # offset

shielded_deposit(computation_offset, plaintext_amount) ==
    /\ OffsetFree(computation_offset)
    /\ vault + plaintext_amount <= MaxVault
    /\ UNCHANGED not_lg_vars
    /\ IF ~(plaintext_amount > 0)
       THEN LgFail("shielded_deposit", "InvalidAmount")
       ELSE /\ vault' = vault + plaintext_amount
            /\ jobs' = jobs \cup {[kind |-> "shielded_deposit",
                                   offset |-> computation_offset,
                                   nullifier |-> 0,
                                   amount |-> plaintext_amount]}
            /\ LgOk("shielded_deposit")
            /\ UNCHANGED <<nr_used, nr_count, ct_commitments, ct_count,
                           ct_root, pools>>

\* The callback of job j is delivered with `output`; the job is no longer
\* pending afterwards.
shielded_deposit_callback(j, output) ==
    /\ j \in jobs
    /\ j.kind = "shielded_deposit"
    /\ jobs' = jobs \ {j}
    /\ lg_result' = [op |-> "shielded_deposit_callback",
                     err |-> IF output = "Success" THEN "Ok"
                             ELSE "ComputationFailed"]
    /\ UNCHANGED <<nr_used, nr_count, ct_commitments, ct_count, ct_root,
                   pools, vault>>
    /\ UNCHANGED not_lg_vars

\* Mutant: the claim is queued without marking its nullifier.
shielded_claim_keepsRegistry(computation_offset, nullifier_hash) ==
    LET r == use_nullifier(nr_used, nr_count, nullifier_hash)
    IN  /\ OffsetFree(computation_offset)
        /\ IF is_used(nr_used, nullifier_hash)
           THEN LgFail("shielded_claim", "NullifierAlreadyUsed")
           ELSE IF r.err # "Ok" THEN LgFail("shielded_claim", r.err)
           ELSE /\ jobs' = jobs \cup {[kind |-> "shielded_claim",
                                       offset |-> computation_offset,
                                       nullifier |-> nullifier_hash,
                                       amount |-> 0]}
                /\ LgOk("shielded_claim")
                /\ UNCHANGED <<nr_used, nr_count, ct_commitments, ct_count,
                               ct_root, pools, vault>>
        /\ UNCHANGED not_lg_vars

shielded_claim(computation_offset, nullifier_hash) ==
    LET r == use_nullifier(nr_used, nr_count, nullifier_hash)
    IN  /\ OffsetFree(computation_offset)
        /\ IF is_used(nr_used, nullifier_hash)
           THEN LgFail("shielded_claim", "NullifierAlreadyUsed")
           ELSE IF r.err # "Ok" THEN LgFail("shielded_claim", r.err)
           ELSE /\ nr_used' = r.used
                /\ nr_count' = r.count
                /\ jobs' = jobs \cup {[kind |-> "shielded_claim",
                                       offset |-> computation_offset,
                                       nullifier |-> nullifier_hash,
                                       amount |-> 0]}
                /\ LgOk("shielded_claim")
                /\ UNCHANGED <<ct_commitments, ct_count, ct_root, pools,
                               vault>>
        /\ UNCHANGED not_lg_vars

shielded_claim_callback(j, output) ==
    /\ j \in jobs
    /\ j.kind = "shielded_claim"
    /\ jobs' = jobs \ {j}
    /\ lg_result' = [op |-> "shielded_claim_callback",
                     err |-> IF output = "Success" THEN "Ok"
                             ELSE "ComputationFailed"]
    /\ UNCHANGED <<nr_used, nr_count, ct_commitments, ct_count, ct_root,
                   pools, vault>>
    /\ UNCHANGED not_lg_vars

\* What a callback can carry: ComputationOutputs::Success or anything else.
Outputs == {"Success", "Failure"}

\* ---------------------------------- private program: private_transfer job
\* lib.rs:890-988 with UserAccount (user_registry.rs). The user accounts
\* exist from the start (create_user_account).

Users == {"alice", "bob"}

\* Ciphertexts and nonces a computation output can carry.
Ciphertexts == {1, 2}
OutputNonces == {1, 2}

\* Offsets a caller may choose for a private_transfer computation.
TransferOffsets == {1, 2}

\* ComputationOutputs<PrivateTransferOutput>: Success with the three
\* ciphertexts and the nonce, or a failure.
TransferOutputs ==
    [status : {"Success"}, ct0 : Ciphertexts, ct1 : Ciphertexts,
     ct2 : {1}, nonce : OutputNonces]
    \cup {[status |-> "Failure", ct0 |-> 0, ct1 |-> 0, ct2 |-> 0, nonce |-> 0]}

\* UserAccount::update_balance
update_balance(account, new_encrypted_balance, new_nonce, current_timestamp) ==
    [account EXCEPT !.encrypted_balance = new_encrypted_balance,
                    !.balance_nonce = new_nonce,
                    !.last_updated = current_timestamp]

\* UserAccount::initialize at time 0: the fields the transfer touches.
PtInit ==
    /\ ua = [u \in Users |-> [encrypted_balance |-> 0, balance_nonce |-> 0,
                              last_updated |-> 0]]
    /\ ua_totals = [u \in Users |-> [total_deposits |-> 0,
                                     total_withdrawals |-> 0]]
    /\ pt_jobs = {}
    /\ clock = 0
    /\ pt_result = [op |-> "none", err |-> "Ok"]

\* Clock::get()?.unix_timestamp moves on between transactions.
Tick ==
    /\ clock < MaxTime
    /\ clock' = clock + 1
    /\ UNCHANGED <<ua, ua_totals, pt_jobs, pt_result>>
    /\ UNCHANGED not_pt_vars

private_transfer(computation_offset, sender, receiver) ==
    /\ \A j \in pt_jobs : j.offset # computation_offset
    /\ pt_jobs' = pt_jobs \cup {[offset |-> computation_offset,
                                 sender |-> sender, receiver |-> receiver]}
    /\ pt_result' = [op |-> "private_transfer", err |-> "Ok"]
    /\ UNCHANGED <<ua, ua_totals, clock>>
    /\ UNCHANGED not_pt_vars

\* Mutant: the sender is updated before the output is examined.
private_transfer_callback_senderFirst(j, output) ==
    /\ j \in pt_jobs
    /\ pt_jobs' = pt_jobs \ {j}
    /\ UNCHANGED <<clock, ua_totals>>
    /\ UNCHANGED not_pt_vars
    /\ LET s == update_balance(ua[j.sender], output.ct0, output.nonce, clock)
           r == update_balance(ua[j.receiver], output.ct1, output.nonce, clock)
       IN  IF output.status # "Success"
           THEN /\ pt_result' = [op |-> "private_transfer_callback",
                                 err |-> "ComputationFailed"]
                /\ ua' = [ua EXCEPT ![j.sender] = s]
           ELSE /\ ua' = [ua EXCEPT ![j.sender] = s, ![j.receiver] = r]
                /\ pt_result' = [op |-> "private_transfer_callback",
                                 err |-> "Ok"]

\* The callback of job j is delivered with `output`. The sender and the
\* receiver account are written back in this order, so one account in both
\* roles keeps the receiver's update.
private_transfer_callback(j, output) ==
    /\ j \in pt_jobs
    /\ pt_jobs' = pt_jobs \ {j}
    /\ UNCHANGED <<clock, ua_totals>>
    /\ UNCHANGED not_pt_vars
    /\ IF output.status # "Success"
       THEN /\ pt_result' = [op |-> "private_transfer_callback",
                             err |-> "ComputationFailed"]
            /\ UNCHANGED ua
       ELSE LET s == update_balance(ua[j.sender], output.ct0, output.nonce,
                                    clock)
                r == update_balance(ua[j.receiver], output.ct1, output.nonce,
                                    clock)
            IN  /\ ua' = [ua EXCEPT ![j.sender] = s, ![j.receiver] = r]
                /\ pt_result' = [op |-> "private_transfer_callback",
                                 err |-> "Ok"]

\* lib.rs:155-186 with UserAccount::record_deposit: the lamports go to the
\* vault PDA, the ciphertext the caller supplies becomes the balance and
\* total_deposits grows by amount.
deposit(owner, amount, encrypted_new_balance, balance_nonce) ==
    LET t == checked_add(ua_totals[owner].total_deposits, amount)
    IN  /\ vault + amount <= MaxVault
        /\ t.val <= MaxTotal
        /\ IF ~(amount > 0)
           THEN /\ pt_result' = [op |-> "deposit",
                                 err |-> "InsufficientBalance"]
                /\ UNCHANGED <<ua, ua_totals, vault>>
           ELSE IF ~t.ok
           THEN /\ pt_result' = [op |-> "deposit", err |-> "Overflow"]
                /\ UNCHANGED <<ua, ua_totals, vault>>
           ELSE /\ vault' = vault + amount
                /\ ua' = [ua EXCEPT ![owner] =
                              update_balance(@, encrypted_new_balance,
                                             balance_nonce, clock)]
                /\ ua_totals' = [ua_totals EXCEPT
                                    ![owner].total_deposits = t.val]
                /\ pt_result' = [op |-> "deposit", err |-> "Ok"]
        /\ UNCHANGED <<pt_jobs, clock>>
        /\ UNCHANGED <<nr_used, nr_count, ct_commitments, ct_count, ct_root,
                       pools, jobs, lg_result>>
        /\ UNCHANGED <<mt_vars, vp_vars, eb_vars, et_vars, dp_vars, kx_vars,
                       us_vars, sp_vars>>

\* lib.rs:190-229 with UserAccount::record_withdrawal: the vault PDA pays
\* amount to the owner when it holds that much, the ciphertext the caller
\* supplies becomes the balance and total_withdrawals grows by amount.
withdraw(owner, amount, encrypted_new_balance, balance_nonce) ==
    LET t == checked_add(ua_totals[owner].total_withdrawals, amount)
    IN  /\ t.val <= MaxTotal
        /\ IF ~(amount > 0)
           THEN /\ pt_result' = [op |-> "withdraw",
                                 err |-> "InsufficientBalance"]
                /\ UNCHANGED <<ua, ua_totals, vault>>
           ELSE IF ~VaultCanPay(amount)
           THEN /\ pt_result' = [op |-> "withdraw",
                                 err |-> "InsufficientFunds"]
                /\ UNCHANGED <<ua, ua_totals, vault>>
           ELSE IF ~t.ok
           THEN /\ pt_result' = [op |-> "withdraw", err |-> "Overflow"]
                /\ UNCHANGED <<ua, ua_totals, vault>>
           ELSE /\ vault' = vault - amount
                /\ ua' = [ua EXCEPT ![owner] =
                              update_balance(@, encrypted_new_balance,
                                             balance_nonce, clock)]
                /\ ua_totals' = [ua_totals EXCEPT
                                    ![owner].total_withdrawals = t.val]
                /\ pt_result' = [op |-> "withdraw", err |-> "Ok"]
        /\ UNCHANGED <<pt_jobs, clock>>
        /\ UNCHANGED <<nr_used, nr_count, ct_commitments, ct_count, ct_root,
                       pools, jobs, lg_result>>
        /\ UNCHANGED <<mt_vars, vp_vars, eb_vars, et_vars, dp_vars, kx_vars,
                       us_vars, sp_vars>>

\* --------------------------------- private program: encrypted balances
\* lib.rs:740-874 with encrypted_balance.rs. The registry and the vault
\* exist from the start (init_encrypted_balance_registry,
\* init_encrypted_vault). Lamports of the vault are counted above its rent.

\* Owners an encrypted balance can be created for and looked up under.
EbOwners == {"alice", "bob"}

\* Amounts offered to deposit_encrypted_balance and to
\* withdraw_encrypted_balance.
EbAmounts == {0, 1, 2}

\* Nullifier hashes offered to withdraw_encrypted_balance.
EbNullifiers == {1, 2}

\* Indices offered to withdraw_encrypted_balance for the PDA derivation.
EbIndices == 0..MAX_ENCRYPTED_BALANCES

\* Option<[u8; 32]>: None is the empty sequence, Some(h) is <<h>>.
None == <<>>
Some(h) == <<h>>

EbInit ==
    /\ eb_records = <<>>
    /\ eb_total_balances = 0
    /\ eb_total_locked = 0
    /\ eb_lamports = 0
    /\ eb_result = [op |-> "none", err |-> "Ok"]

\* An instruction that returned Err: the transaction is rolled back.
EbFail(op, err) ==
    /\ eb_result' = [op |-> op, err |-> err]
    /\ UNCHANGED <<eb_records, eb_total_balances, eb_total_locked,
                   eb_lamports>>

\* EncryptedBalanceRegistry::add_commitment on the number of commitments
\* held and total_balances: the error, the new total and the index.
registry_add_commitment(held, total_balances) ==
    IF ~(held < MAX_ENCRYPTED_BALANCES)
    THEN [err |-> "RegistryFull", total |-> total_balances, val |-> 0]
    ELSE [err |-> "Ok", total |-> total_balances + 1, val |-> total_balances]

\* The record deposit_encrypted_balance writes into the new PDA; `locked`
\* is the amount its ciphertext hides.
deposit_encrypted_balance(amount, owner) ==
    LET t == checked_add(eb_total_locked, amount)
        r == registry_add_commitment(Len(eb_records), eb_total_balances)
        encrypted_balance ==
            [owner |-> owner, index |-> eb_total_balances, locked |-> amount,
             nullifier_hash |-> None, is_spent |-> FALSE]
    IN  /\ UNCHANGED not_eb_vars
        /\ IF ~(amount > 0)
           THEN EbFail("deposit_encrypted_balance", "InvalidAmount")
           ELSE IF ~t.ok
           THEN EbFail("deposit_encrypted_balance", "ArithmeticOverflow")
           ELSE IF r.err # "Ok"
           THEN EbFail("deposit_encrypted_balance", r.err)
           ELSE /\ eb_lamports' = eb_lamports + amount
                /\ eb_total_locked' = t.val
                /\ eb_records' = Append(eb_records, encrypted_balance)
                /\ eb_total_balances' = r.total
                /\ eb_result' = [op |-> "deposit_encrypted_balance",
                                 err |-> "Ok"]

\* The PDA of (owner, index) holds an initialised EncryptedBalance.
EbExists(owner, index) ==
    /\ index < Len(eb_records)
    /\ eb_records[index + 1].owner = owner

\* Mutant: the is_spent check is missing.
withdraw_encrypted_balance_noSpentCheck(nullifier_hash, amount, owner, index) ==
    /\ IF ~EbExists(owner, index)
       THEN EbFail("withdraw_encrypted_balance", "AccountNotInitialized")
       ELSE IF ~(eb_total_locked >= amount)
       THEN EbFail("withdraw_encrypted_balance", "InsufficientBalance")
       ELSE IF ~checked_sub(eb_lamports, amount).ok
       THEN EbFail("withdraw_encrypted_balance", "ArithmeticOverflow")
       ELSE /\ eb_records' =
                   [eb_records EXCEPT
                       ![index + 1].is_spent = TRUE,
                       ![index + 1].nullifier_hash = Some(nullifier_hash)]
            /\ eb_lamports' = eb_lamports - amount
            /\ eb_total_locked' = eb_total_locked - amount
            /\ UNCHANGED eb_total_balances
            /\ eb_result' = [op |-> "withdraw_encrypted_balance",
                             err |-> "Ok"]
    /\ UNCHANGED not_eb_vars

withdraw_encrypted_balance(nullifier_hash, amount, owner, index) ==
    /\ IF ~EbExists(owner, index)
       THEN EbFail("withdraw_encrypted_balance", "AccountNotInitialized")
       ELSE IF eb_records[index + 1].is_spent
       THEN EbFail("withdraw_encrypted_balance", "AlreadySpent")
       ELSE IF ~(eb_total_locked >= amount)
       THEN EbFail("withdraw_encrypted_balance", "InsufficientBalance")
       ELSE IF ~checked_sub(eb_lamports, amount).ok
       THEN EbFail("withdraw_encrypted_balance", "ArithmeticOverflow")
       ELSE /\ eb_records' =
                   [eb_records EXCEPT
                       ![index + 1].is_spent = TRUE,
                       ![index + 1].nullifier_hash = Some(nullifier_hash)]
            /\ eb_lamports' = eb_lamports - amount
            /\ eb_total_locked' = eb_total_locked - amount
            /\ UNCHANGED eb_total_balances
            /\ eb_result' = [op |-> "withdraw_encrypted_balance",
                             err |-> "Ok"]
    /\ UNCHANGED not_eb_vars

\* ------------------- arcium-private-transfer program: encrypted_transfer
\* src/arcium-private-transfer/programs/private-transfer/src/lib.rs:40-142.

\* Senders and computation offsets of encrypted_transfer; a transfer
\* account is the PDA of ("transfer", sender, computation_offset).
EtSenders == {"alice", "bob"}
EtOffsets == {1, 2}
EtKeys == EtSenders \X EtOffsets

\* Ciphertexts offered as encrypted_amount.
EtAmounts == {1}

\* Ciphertexts a Success output carries.
EtCiphertexts == {1, 2}

\* ComputationOutputs<EncryptedTransferOutput>: Success with ciphertexts[0]
\* (nonce and encryption key go with it), or a failure.
EtOutputs ==
    [status : {"Success"}, ct0 : EtCiphertexts]
    \cup {[status |-> "Failure", ct0 |-> 0]}

\* A transfer PDA that no encrypted_transfer has created yet.
NoTransfer ==
    [exists |-> FALSE, encrypted_amount |-> 0, timestamp |-> 0,
     status |-> "Pending", encrypted_result_amount |-> 0]

EtInit ==
    /\ et_accounts = [k \in EtKeys |-> NoTransfer]
    /\ et_jobs = {}
    /\ et_result = [op |-> "none", err |-> "Ok"]

\* An instruction that returned Err: the transaction is rolled back.
EtFail(op, err) ==
    /\ et_result' = [op |-> op, err |-> err]
    /\ UNCHANGED et_accounts

\* Mutant: transfer_account is declared init_if_needed, so a second
\* submission under the same seeds rewrites the record.
encrypted_transfer_initIfNeeded(sender, computation_offset, encrypted_amount) ==
    /\ \A j \in et_jobs : j.offset # computation_offset
    /\ UNCHANGED not_et_vars
    /\ et_accounts' =
           [et_accounts EXCEPT ![<<sender, computation_offset>>] =
               [@ EXCEPT !.exists = TRUE,
                         !.encrypted_amount = encrypted_amount,
                         !.timestamp = clock,
                         !.status = "Pending"]]
    /\ et_jobs' = et_jobs \cup {[offset |-> computation_offset,
                                 sender |-> sender]}
    /\ et_result' = [op |-> "encrypted_transfer", err |-> "Ok"]

\* encrypted_transfer: the computation account of the offset is free, the
\* transfer PDA is created (init fails on an existing one), filled and left
\* Pending, and the computation is queued.
encrypted_transfer(sender, computation_offset, encrypted_amount) ==
    /\ \A j \in et_jobs : j.offset # computation_offset
    /\ UNCHANGED not_et_vars
    /\ IF et_accounts[<<sender, computation_offset>>].exists
       THEN /\ EtFail("encrypted_transfer", "AccountAlreadyInUse")
            /\ UNCHANGED et_jobs
       ELSE /\ et_accounts' =
                   [et_accounts EXCEPT ![<<sender, computation_offset>>] =
                       [exists |-> TRUE,
                        encrypted_amount |-> encrypted_amount,
                        timestamp |-> clock,
                        status |-> "Pending",
                        encrypted_result_amount |-> 0]]
            /\ et_jobs' = et_jobs \cup {[offset |-> computation_offset,
                                         sender |-> sender]}
            /\ et_result' = [op |-> "encrypted_transfer", err |-> "Ok"]

\* The callback of job j is delivered, once, with `output`.
\* callback_ix(&[]) registers no custom account for it, while the handler
\* needs transfer_account: `carried` says whether the delivered
\* instruction carries the job's transfer account; without it the
\* instruction fails before the handler runs.
encrypted_transfer_callback(j, output, carried) ==
    /\ j \in et_jobs
    /\ et_jobs' = et_jobs \ {j}
    /\ UNCHANGED not_et_vars
    /\ IF ~carried
       THEN EtFail("encrypted_transfer_callback", "AccountNotEnoughKeys")
       ELSE IF output.status # "Success"
       THEN EtFail("encrypted_transfer_callback", "ComputationAborted")
       ELSE /\ et_accounts' =
                   [et_accounts EXCEPT ![<<j.sender, j.offset>>] =
                       [@ EXCEPT !.encrypted_result_amount = output.ct0,
                                 !.status = "Completed"]]
            /\ et_result' = [op |-> "encrypted_transfer_callback",
                             err |-> "Ok"]

\* ------------------------------ DenominationPool: the methods as calls
\* denomination.rs:105-140 called on one pool record through &mut self, as
\* the unit tests do: the record keeps whatever a call wrote, also when the
\* call returns an error.

\* Pool ids offered to initialize (a u8): the five valid ones and some
\* beyond them.
DpPoolIds == 0..6 \cup {255}

Denominations == {"Pool01SOL", "Pool05SOL", "Pool1SOL", "Pool5SOL", "Pool10SOL"}

\* Denomination::to_id: the discriminant of the enum.
to_id(d) ==
    CASE d = "Pool01SOL" -> 0
      [] d = "Pool05SOL" -> 1
      [] d = "Pool1SOL" -> 2
      [] d = "Pool5SOL" -> 3
      [] d = "Pool10SOL" -> 4

DpInit ==
    /\ dp = NoPool
    /\ dp_result = [op |-> "none", err |-> "Ok"]

call_initialize(pool_id) ==
    /\ LET r == pool_initialize(dp, pool_id)
       IN  /\ dp' = r.pool
           /\ dp_result' = [op |-> "initialize", err |-> r.err]
    /\ UNCHANGED not_dp_vars

call_record_deposit ==
    /\ dp.exists
    /\ LET r == record_deposit(dp)
       IN  /\ dp' = r.pool
           /\ dp_result' = [op |-> "record_deposit", err |-> r.err]
    /\ UNCHANGED not_dp_vars

call_record_claim ==
    /\ dp.exists
    /\ LET r == record_claim(dp)
       IN  /\ dp' = r.pool
           /\ dp_result' = [op |-> "record_claim", err |-> r.err]
    /\ UNCHANGED not_dp_vars

\* DenominationPool::utilization_rate (denomination.rs:148-154). The
\* product total_claimed * 100 is a plain u64 multiplication: when it does
\* not fit, a build with overflow checks panics and a build without them
\* keeps the low bits.
utilization_rate(pool, overflow_checks) ==
    LET product == pool.total_claimed * 100
        wrapped == product % (U64_MAX + 1)
        rate == wrapped \div pool.total_deposited
    IN  IF pool.total_deposited = 0 THEN [err |-> "Ok", val |-> 0]
        ELSE IF product > U64_MAX /\ overflow_checks
        THEN [err |-> "Panic", val |-> 0]
        ELSE [err |-> "Ok", val |-> IF rate < 100 THEN rate ELSE 100]

call_utilization_rate(overflow_checks) ==
    /\ dp.exists
    /\ LET r == utilization_rate(dp, overflow_checks)
       IN  dp_result' = [op |-> "utilization_rate", err |-> r.err,
                         val |-> r.val]
    /\ UNCHANGED dp
    /\ UNCHANGED not_dp_vars

\* --------------------------- stealth addresses and amount encryption
\* stealth.rs, encryption.rs and encrypted_balance.rs:211-295: pure
\* functions. A call is recorded with its arguments and what it returned.

\* Private keys [k; 32], spending public keys, nonces [k; 12].
PrivKeys == {<<1>>, <<2>>}
SpendingKeys == {<<7>>, <<8>>}
KxNonces == {<<1>>, <<2>>}

\* SHA-256 of a domain tag followed by the parts fed to the hasher; the
\* tags are the negative numbers -2 .. -7.
Sha256(tag, data) == <<tag>> \o data

\* stealth.rs:73-89
stealth_compute_shared_secret(privkey, pubkey) ==
    Sha256(-2, privkey \o pubkey)

\* stealth.rs:93-111 (the tag is fed last)
derive_address_from_secret(shared_secret, base_pubkey) ==
    Sha256(-3, shared_secret \o base_pubkey)

\* stealth.rs:117-129
derive_public_key(privkey) == Sha256(-4, privkey)

generate_stealth_address(recipient_encryption_pubkey, recipient_spending_pubkey, ephemeral_private_key) ==
    LET shared_secret ==
            stealth_compute_shared_secret(ephemeral_private_key,
                                          recipient_encryption_pubkey)
    IN  [stealth_address |->
             derive_address_from_secret(shared_secret,
                                        recipient_spending_pubkey),
         ephemeral_public_key |-> derive_public_key(ephemeral_private_key)]

\* stealth.rs:45-65
scan_commitment(recipient_encryption_privkey, recipient_spending_pubkey, ephemeral_public_key, commitment_stealth_address) ==
    LET shared_secret ==
            stealth_compute_shared_secret(recipient_encryption_privkey,
                                          ephemeral_public_key)
        expected_stealth ==
            derive_address_from_secret(shared_secret,
                                       recipient_spending_pubkey)
    IN  expected_stealth = commitment_stealth_address

\* encryption.rs:93-108
compute_shared_secret(my_private_key, their_public_key) ==
    Sha256(-5, my_private_key \o their_public_key)

\* A u64 is AMOUNT_BYTES bytes of BYTE_BITS bits each.
KxAmounts == 0..(Pow2(BYTE_BITS * AMOUNT_BYTES) - 1)

\* u64::to_le_bytes
to_le_bytes(amount) ==
    [i \in 1..AMOUNT_BYTES |->
        (amount \div Pow2(BYTE_BITS * (i - 1))) % Pow2(BYTE_BITS)]

\* Mutant: the bytes are read most significant first.
from_be_bytes(bytes) ==
    LET RECURSIVE Value(_)
        Value(i) == IF i > Len(bytes) THEN 0
                    ELSE bytes[Len(bytes) + 1 - i]
                         + Pow2(BYTE_BITS) * Value(i + 1)
    IN  Value(1)

\* u64::from_le_bytes
from_le_bytes(bytes) ==
    LET RECURSIVE Value(_)
        Value(i) == IF i > Len(bytes) THEN 0
                    ELSE bytes[i] + Pow2(BYTE_BITS) * Value(i + 1)
    IN  Value(1)

\* Bitwise exclusive or of two bytes.
RECURSIVE Xor(_, _)
Xor(x, y) ==
    IF x = 0 /\ y = 0 THEN 0
    ELSE ((x + y) % 2) + 2 * Xor(x \div 2, y \div 2)

\* ChaCha20::new(key, nonce) and StreamCipher::apply_keystream: the buffer
\* xor the keystream. The chacha20 crate is a dependency; its keystream
\* is taken as one fixed function of the key, the nonce and the position.
apply_keystream(key, nonce, buffer) ==
    LET RECURSIVE Mix(_)
        Mix(data) == IF data = <<>> THEN 1
                     ELSE (Head(data) + 7 + 3 * Mix(Tail(data))) % 251
        KeyStream(i) ==
            (Mix(key) * (i + 1) + Mix(nonce) * (i + 2) + Mix(key \o nonce))
                % Pow2(BYTE_BITS)
    IN  [i \in 1..AMOUNT_BYTES |-> Xor(buffer[i], KeyStream(i))]

\* encryption.rs:25-48
encrypt_amount(amount, shared_secret, nonce) ==
    LET key == Sha256(-6, shared_secret)
        plaintext == to_le_bytes(amount)
    IN  apply_keystream(key, nonce, plaintext)

\* encryption.rs:59-80
decrypt_amount(ciphertext, shared_secret, nonce) ==
    LET key == Sha256(-6, shared_secret)
        plaintext == apply_keystream(key, nonce, ciphertext)
    IN  from_le_bytes(plaintext)

\* encrypted_balance.rs:211-243, without the commitment
create_encrypted_balance(amount, ephemeral_secret, recipient_pubkey, nonce) ==
    LET shared_secret ==
            compute_shared_secret(ephemeral_secret, recipient_pubkey)
    IN  [ciphertext |-> encrypt_amount(amount, shared_secret, nonce),
         ephemeral_pubkey |-> Sha256(-7, ephemeral_secret)]

\* encrypted_balance.rs:282-295
decrypt_encrypted_balance(ciphertext, recipient_private_key, ephemeral_pubkey, nonce) ==
    LET shared_secret ==
            compute_shared_secret(recipient_private_key, ephemeral_pubkey)
    IN  decrypt_amount(ciphertext, shared_secret, nonce)

\* No call has been made.
KxIdle ==
    /\ kx_call = [op |-> "none"]
    /\ kx_out = [op |-> "none"]

\* The calls offered. scan_commitment: a sender makes a stealth address
\* for the recipient who holds recipient_priv and `spending`, and a scanner
\* holding scan_priv and scan_spending scans it together with the
\* ephemeral public key of scan_eph. decrypt_amount: of the result of
\* encrypt_amount. decrypt_encrypted_balance: by the recipient
\* create_encrypted_balance was called for. private_transfer: the circuit
\* on u64 balances at and away from the ends of the range, as either build
\* evaluates it.
KxInit ==
    /\ kx_call \in
          [op : {"scan_commitment"}, recipient_priv : PrivKeys,
           spending : SpendingKeys, ephemeral_priv : PrivKeys,
           scan_priv : PrivKeys, scan_spending : SpendingKeys,
           scan_eph : PrivKeys]
          \cup [op : {"decrypt_amount"}, amount : KxAmounts,
                shared_secret : PrivKeys, nonce : KxNonces]
          \cup [op : {"decrypt_encrypted_balance"}, amount : KxAmounts,
                ephemeral_secret : PrivKeys, recipient_priv : PrivKeys,
                nonce : KxNonces]
          \cup [op : {"private_transfer"},
                sender_balance : {0, 1, 2, U64_MAX - 1, U64_MAX},
                receiver_balance : {0, 1, 2, U64_MAX - 1, U64_MAX},
                transfer_amount : {0, 1, 2, U64_MAX - 1, U64_MAX},
                overflow_checks : BOOLEAN]
    /\ kx_out = [op |-> "none"]

ScanCall ==
    LET c == kx_call
        g == generate_stealth_address(derive_public_key(c.recipient_priv),
                                      c.spending, c.ephemeral_priv)
    IN  /\ c.op = "scan_commitment"
        /\ kx_out.op = "none"
        /\ kx_out' = [op |-> "scan_commitment",
                      belongs |->
                          scan_commitment(c.scan_priv, c.scan_spending,
                                          derive_public_key(c.scan_eph),
                                          g.stealth_address)]
        /\ UNCHANGED kx_call
        /\ UNCHANGED not_kx_vars

AmountRoundTrip ==
    LET c == kx_call
        ciphertext == encrypt_amount(c.amount, c.shared_secret, c.nonce)
    IN  /\ c.op = "decrypt_amount"
        /\ kx_out.op = "none"
        /\ kx_out' = [op |-> "decrypt_amount",
                      ciphertext |-> ciphertext,
                      amount |-> decrypt_amount(ciphertext, c.shared_secret,
                                                c.nonce)]
        /\ UNCHANGED kx_call
        /\ UNCHANGED not_kx_vars

\* With the shared secret each side computed.
BalanceRoundTrip ==
    LET c == kx_call
        recipient_pubkey == derive_public_key(c.recipient_priv)
        b == create_encrypted_balance(c.amount, c.ephemeral_secret,
                                      recipient_pubkey, c.nonce)
    IN  /\ c.op = "decrypt_encrypted_balance"
        /\ kx_out.op = "none"
        /\ kx_out' = [op |-> "decrypt_encrypted_balance",
                      sender_secret |->
                          compute_shared_secret(c.ephemeral_secret,
                                                recipient_pubkey),
                      recipient_secret |->
                          compute_shared_secret(c.recipient_priv,
                                                b.ephemeral_pubkey),
                      amount |->
                          decrypt_encrypted_balance(b.ciphertext,
                                                    c.recipient_priv,
                                                    b.ephemeral_pubkey,
                                                    c.nonce)]
        /\ UNCHANGED kx_call
        /\ UNCHANGED not_kx_vars

\* The private_transfer circuit (api/private/encrypted-ixs/src/lib.rs:52-81).
\* The sum receiver_balance + transfer_amount is a plain u64 addition: when
\* it does not fit, an evaluation with overflow checks aborts without an
\* output and one without them keeps the low bits.
circuit_private_transfer(input, overflow_checks) ==
    LET is_valid == /\ input.transfer_amount > 0
                    /\ input.transfer_amount <= input.sender_balance
        sum == input.receiver_balance + input.transfer_amount
        new_sender_balance ==
            IF is_valid THEN input.sender_balance - input.transfer_amount
            ELSE input.sender_balance
        new_receiver_balance ==
            IF is_valid THEN sum % (U64_MAX + 1)
            ELSE input.receiver_balance
    IN  [aborted |-> is_valid /\ sum > U64_MAX /\ overflow_checks,
         new_sender_balance |-> new_sender_balance,
         new_receiver_balance |-> new_receiver_balance,
         is_valid |-> is_valid]

CircuitCall ==
    /\ kx_call.op = "private_transfer"
    /\ kx_out.op = "none"
    /\ kx_out' = [op |-> "private_transfer",
                  out |-> circuit_private_transfer(kx_call,
                                                   kx_call.overflow_checks)]
    /\ UNCHANGED kx_call
    /\ UNCHANGED not_kx_vars

\* ------------------------------------ private program: shield and unshield
\* src/private/programs/private/src/lib.rs. Lamports are counted in units
\* of the fixed amount. A computation is pending from queue_computation
\* until its callback is delivered, once, with Success or Failure.

UsInit ==
    /\ us_vault = 0
    /\ us_accounts = [p \in {"alice", "bob"} |->
                         [exists |-> FALSE, spent |-> FALSE, amount |-> 0,
                          recipient |-> "none"]]
    /\ us_jobs = {}
    /\ us_paid = [p \in {"alice", "bob"} |-> 0]
    /\ us_result = [op |-> "none", err |-> "Ok"]

\* lib.rs:84-127. The accounts of Shield are created if needed
\* (lib.rs:366-383).
shield(payer, computation_offset) ==
    /\ \A j \in us_jobs : j.offset # computation_offset
    /\ us_vault + FIXED_AMOUNT <= MaxVault
    /\ us_vault' = us_vault + FIXED_AMOUNT
    /\ us_accounts' = [us_accounts EXCEPT ![payer].exists = TRUE]
    /\ us_jobs' = us_jobs \cup {[kind |-> "shield",
                                 offset |-> computation_offset,
                                 account |-> payer, recipient |-> "none"]}
    /\ us_result' = [op |-> "shield", err |-> "Ok"]
    /\ UNCHANGED us_paid
    /\ UNCHANGED not_us_vars

\* lib.rs:214-221: the output is not looked at.
shield_callback(j, output) ==
    /\ j \in us_jobs
    /\ j.kind = "shield"
    /\ us_jobs' = us_jobs \ {j}
    /\ us_result' = [op |-> "shield_callback", err |-> "Ok"]
    /\ UNCHANGED <<us_vault, us_accounts, us_paid>>
    /\ UNCHANGED not_us_vars

\* lib.rs:129-158
anonymous_transfer(computation_offset) ==
    /\ \A j \in us_jobs : j.offset # computation_offset
    /\ us_jobs' = us_jobs \cup {[kind |-> "anonymous_transfer",
                                 offset |-> computation_offset,
                                 account |-> "none", recipient |-> "none"]}
    /\ us_result' = [op |-> "anonymous_transfer", err |-> "Ok"]
    /\ UNCHANGED <<us_vault, us_accounts, us_paid>>
    /\ UNCHANGED not_us_vars

\* lib.rs:223-230: the output is not looked at.
anonymous_transfer_callback(j, output) ==
    /\ j \in us_jobs
    /\ j.kind = "anonymous_transfer"
    /\ us_jobs' = us_jobs \ {j}
    /\ us_result' = [op |-> "anonymous_transfer_callback", err |-> "Ok"]
    /\ UNCHANGED <<us_vault, us_accounts, us_paid>>
    /\ UNCHANGED not_us_vars

\* lib.rs:160-212. The callback is registered with the vault, the payer's
\* commitment account and the recipient.
unshield_v2(payer, computation_offset, amount, recipient) ==
    /\ \A j \in us_jobs : j.offset # computation_offset
    /\ IF ~us_accounts[payer].exists
       THEN /\ us_result' = [op |-> "unshield_v2",
                             err |-> "AccountNotInitialized"]
            /\ UNCHANGED <<us_accounts, us_jobs>>
       ELSE IF us_accounts[payer].spent
       THEN /\ us_result' = [op |-> "unshield_v2",
                             err |-> "CommitmentAlreadySpent"]
            /\ UNCHANGED <<us_accounts, us_jobs>>
       ELSE IF amount # FIXED_AMOUNT
       THEN /\ us_result' = [op |-> "unshield_v2", err |-> "InvalidAmount"]
            /\ UNCHANGED <<us_accounts, us_jobs>>
       ELSE /\ us_accounts' = [us_accounts EXCEPT
                                  ![payer].amount = amount,
                                  ![payer].recipient = recipient]
            /\ us_jobs' = us_jobs \cup {[kind |-> "unshield_v2",
                                         offset |-> computation_offset,
                                         account |-> payer,
                                         recipient |-> recipient]}
            /\ us_result' = [op |-> "unshield_v2", err |-> "Ok"]
    /\ UNCHANGED <<us_vault, us_paid>>
    /\ UNCHANGED not_us_vars

\* lib.rs:232-269
unshield_v2_callback(j, output) ==
    LET amount == us_accounts[j.account].amount
    IN  /\ j \in us_jobs
        /\ j.kind = "unshield_v2"
        /\ us_jobs' = us_jobs \ {j}
        /\ IF output # "Success"
           THEN /\ us_result' = [op |-> "unshield_v2_callback",
                                 err |-> "ComputationFailed"]
                /\ UNCHANGED <<us_vault, us_accounts, us_paid>>
           ELSE IF ~(us_vault >= amount)
           THEN /\ us_result' = [op |-> "unshield_v2_callback",
                                 err |-> "InsufficientFunds"]
                /\ UNCHANGED <<us_vault, us_accounts, us_paid>>
           ELSE /\ us_vault' = us_vault - amount
                /\ us_accounts' = [us_accounts EXCEPT
                                      ![j.account].spent = TRUE]
                /\ us_paid' = [us_paid EXCEPT
                                  ![j.account] = @ + 1]
                /\ us_result' = [op |-> "unshield_v2_callback",
                                 err |-> "Ok"]
        /\ UNCHANGED not_us_vars

\* ------------------------------------------------ stealf_pool program
\* src/stealf_pool/programs/stealf_pool/src/lib.rs. The Pool account is
\* created with space = 8 + Pool::LEN: the discriminator is one unit of
\* space on top of POOL_LEN.

SpRecipients == {"carol", "dave"}

\* Rent::minimum_balance: grows with the space; one unit of lamports per
\* unit of space.
minimum_balance(data_len) == data_len

SpInit ==
    /\ sp_pool = [exists |-> FALSE, total_deposits |-> 0,
                  total_withdrawals |-> 0]
    /\ sp_lamports = 0
    /\ sp_received = [r \in SpRecipients |-> 0]
    /\ sp_result = [op |-> "none", err |-> "Ok"]

\* lib.rs:11-19 with Initialize (lib.rs:91-105): init creates the account
\* rent-exempt for its space.
stealf_pool_initialize ==
    /\ IF sp_pool.exists
       THEN /\ sp_result' = [op |-> "initialize",
                             err |-> "AccountAlreadyInUse"]
            /\ UNCHANGED <<sp_pool, sp_lamports>>
       ELSE /\ sp_pool' = [exists |-> TRUE, total_deposits |-> 0,
                           total_withdrawals |-> 0]
            /\ sp_lamports' = minimum_balance(POOL_LEN + 1)
            /\ sp_result' = [op |-> "initialize", err |-> "Ok"]
    /\ UNCHANGED sp_received
    /\ UNCHANGED not_sp_vars

\* lib.rs:23-51
stealf_pool_deposit(amount) ==
    LET t == checked_add(sp_pool.total_deposits, amount)
    IN  /\ t.val <= MaxTotal
        /\ IF ~sp_pool.exists
           THEN /\ sp_result' = [op |-> "deposit",
                                 err |-> "AccountNotInitialized"]
                /\ UNCHANGED <<sp_pool, sp_lamports>>
           ELSE IF ~(amount > 0)
           THEN /\ sp_result' = [op |-> "deposit", err |-> "InvalidAmount"]
                /\ UNCHANGED <<sp_pool, sp_lamports>>
           ELSE IF ~t.ok
           THEN /\ sp_result' = [op |-> "deposit", err |-> "Panic"]
                /\ UNCHANGED <<sp_pool, sp_lamports>>
           ELSE /\ sp_lamports' = sp_lamports + amount
                /\ sp_pool' = [sp_pool EXCEPT !.total_deposits = t.val]
                /\ sp_result' = [op |-> "deposit", err |-> "Ok"]
        /\ UNCHANGED sp_received
        /\ UNCHANGED not_sp_vars

\* lib.rs:56-88. saturating_sub gives 0 when amount exceeds the balance.
stealf_pool_withdraw(amount, recipient) ==
    LET t == checked_add(sp_pool.total_withdrawals, amount)
        pool_balance == sp_lamports
        min_balance == minimum_balance(POOL_LEN)
        left == IF amount > pool_balance THEN 0 ELSE pool_balance - amount
    IN  /\ t.val <= MaxTotal
        /\ IF ~sp_pool.exists
           THEN /\ sp_result' = [op |-> "withdraw",
                                 err |-> "AccountNotInitialized"]
                /\ UNCHANGED <<sp_pool, sp_lamports, sp_received>>
           ELSE IF ~(amount > 0)
           THEN /\ sp_result' = [op |-> "withdraw", err |-> "InvalidAmount"]
                /\ UNCHANGED <<sp_pool, sp_lamports, sp_received>>
           ELSE IF ~(left >= min_balance)
           THEN /\ sp_result' = [op |-> "withdraw",
                                 err |-> "InsufficientPoolBalance"]
                /\ UNCHANGED <<sp_pool, sp_lamports, sp_received>>
           ELSE IF ~t.ok
           THEN /\ sp_result' = [op |-> "withdraw", err |-> "Panic"]
                /\ UNCHANGED <<sp_pool, sp_lamports, sp_received>>
           ELSE /\ sp_lamports' = sp_lamports - amount
                /\ sp_received' = [sp_received EXCEPT ![recipient] = @ + amount]
                /\ sp_pool' = [sp_pool EXCEPT !.total_withdrawals = t.val]
                /\ sp_result' = [op |-> "withdraw", err |-> "Ok"]
        /\ UNCHANGED not_sp_vars

\* ------------------------------------------------------- specifications

InitMerkle == MtInit /\ VpIdle /\ LgInit /\ PtInit /\ EbInit /\ EtInit
    /\ DpInit /\ KxIdle /\ UsInit /\ SpInit

NextMerkle ==
    \/ initialize
    \/ \E leaf \in LeafValues : insert(leaf)
    \/ \E index \in ProofIndices : get_proof_call(index)

SpecMerkle == InitMerkle /\ [][NextMerkle]_vars

InitVerify == MtInit /\ VpInit /\ LgInit /\ PtInit /\ EbInit /\ EtInit
    /\ DpInit /\ KxIdle /\ UsInit /\ SpInit

NextVerify == VerifyProofCall

SpecVerify == InitVerify /\ [][NextVerify]_vars

InitLedger == MtInit /\ VpIdle /\ LgInit /\ PtInit /\ EbInit /\ EtInit
    /\ DpInit /\ KxIdle /\ UsInit /\ SpInit

NextLedger ==
    \/ \E a \in Amounts, c \in Commitments : deposit_with_commitment(a, c)
    \/ \E a \in Amounts, n \in Nullifiers : claim_with_proof(a, n)
    \/ \E id \in PoolIds : init_denomination_pool(id)
    \/ \E id \in PoolIds, c \in Commitments : deposit_to_pool(id, c)
    \/ \E id \in PoolIds, n \in Nullifiers : claim_from_pool(id, n)
    \/ \E o \in Offsets, a \in Amounts : shielded_deposit(o, a)
    \/ \E j \in jobs, out \in Outputs : shielded_deposit_callback(j, out)
    \/ \E o \in Offsets, n \in Nullifiers : shielded_claim(o, n)
    \/ \E j \in jobs, out \in Outputs : shielded_claim_callback(j, out)

SpecLedger == InitLedger /\ [][NextLedger]_vars

InitTransfer == MtInit /\ VpIdle /\ LgInit /\ PtInit /\ EbInit /\ EtInit
    /\ DpInit /\ KxIdle /\ UsInit /\ SpInit

NextTransfer ==
    \/ Tick
    \/ \E o \in TransferOffsets, s \in Users, r \in Users :
          private_transfer(o, s, r)
    \/ \E j \in pt_jobs, out \in TransferOutputs :
          private_transfer_callback(j, out)

SpecTransfer == InitTransfer /\ [][NextTransfer]_vars

\* Two users who deposit into and withdraw from the vault; the ciphertext
\* and nonce they supply are not looked at by the program.
NextAccount ==
    \/ \E owner \in Users, amount \in {0, 1, 2} :
          deposit(owner, amount, amount, 1)
    \/ \E owner \in Users, amount \in {0, 1, 2} :
          withdraw(owner, amount, 0, 1)

SpecAccount == InitTransfer /\ [][NextAccount]_vars

NextStealfPool ==
    \/ stealf_pool_initialize
    \/ \E amount \in 0..MaxTotal : stealf_pool_deposit(amount)
    \/ \E amount \in 0..MaxTotal, recipient \in SpRecipients :
          stealf_pool_withdraw(amount, recipient)

SpecStealfPool == InitTransfer /\ [][NextStealfPool]_vars

InitBalance == MtInit /\ VpIdle /\ LgInit /\ PtInit /\ EbInit /\ EtInit
    /\ DpInit /\ KxIdle /\ UsInit /\ SpInit

NextBalance ==
    \/ \E amount \in EbAmounts, owner \in EbOwners :
          deposit_encrypted_balance(amount, owner)
    \/ \E h \in EbNullifiers, amount \in EbAmounts, owner \in EbOwners,
          index \in EbIndices :
          withdraw_encrypted_balance(h, amount, owner, index)

SpecBalance == InitBalance /\ [][NextBalance]_vars

InitJob == MtInit /\ VpIdle /\ LgInit /\ PtInit /\ EbInit /\ EtInit
    /\ DpInit /\ KxIdle /\ UsInit /\ SpInit

NextJob ==
    \/ \E sender \in EtSenders, o \in EtOffsets, a \in EtAmounts :
          encrypted_transfer(sender, o, a)
    \/ \E j \in et_jobs, out \in EtOutputs, carried \in BOOLEAN :
          encrypted_transfer_callback(j, out, carried)

SpecJob == InitJob /\ [][NextJob]_vars

InitPool == MtInit /\ VpIdle /\ LgInit /\ PtInit /\ EbInit /\ EtInit /\ DpInit
    /\ KxIdle /\ UsInit /\ SpInit

NextPool ==
    \/ \E pool_id \in DpPoolIds : call_initialize(pool_id)
    \/ call_record_deposit
    \/ call_record_claim

SpecPool == InitPool /\ [][NextPool]_vars

\* A 0.1 SOL pool record with its utilization_rate read between the calls,
\* by either build. In the units of the model the pool's amount is 1, so
\* that total_claimed * 100 fits the scaled u64 for one claim and overflows
\* only for an accumulated total.
NextRate ==
    \/ \E pool_id \in PoolIds : call_initialize(pool_id)
    \/ call_record_deposit
    \/ call_record_claim
    \/ \E overflow_checks \in BOOLEAN : call_utilization_rate(overflow_checks)

SpecRate == InitPool /\ [][NextRate]_vars

\* The instructions that take an amount or a pool id, on one ledger with
\* one encrypted-balance registry.
NextMalformed ==
    \/ \E a \in Amounts : deposit_with_commitment(a, 1)
    \/ \E a \in Amounts : claim_with_proof(a, 1)
    \/ \E id \in PoolIds : init_denomination_pool(id)
    \/ \E id \in PoolIds : deposit_to_pool(id, 2)
    \/ \E id \in PoolIds : claim_from_pool(id, 2)
    \/ \E o \in Offsets, a \in Amounts : shielded_deposit(o, a)
    \/ \E j \in jobs, out \in Outputs : shielded_deposit_callback(j, out)
    \/ \E a \in Amounts : deposit_encrypted_balance(a, "alice")

SpecMalformed == InitLedger /\ [][NextMalformed]_vars

InitKeys == MtInit /\ VpIdle /\ LgInit /\ PtInit /\ EbInit /\ EtInit /\ DpInit
    /\ KxInit /\ UsInit /\ SpInit

NextKeys ==
    \/ ScanCall
    \/ AmountRoundTrip
    \/ BalanceRoundTrip
    \/ CircuitCall

SpecKeys == InitKeys /\ [][NextKeys]_vars

InitUnshield == MtInit /\ VpIdle /\ LgInit /\ PtInit /\ EbInit /\ EtInit
    /\ DpInit /\ KxIdle /\ UsInit /\ SpInit

NextUnshield ==
    \/ \E payer \in {"alice", "bob"}, o \in {1, 2} : shield(payer, o)
    \/ \E j \in us_jobs, out \in Outputs : shield_callback(j, out)
    \/ \E o \in {1, 2} : anonymous_transfer(o)
    \/ \E j \in us_jobs, out \in Outputs : anonymous_transfer_callback(j, out)
    \/ \E payer \in {"alice", "bob"}, o \in {1, 2}, amount \in {0, FIXED_AMOUNT},
          recipient \in {"carol", "dave"} :
          unshield_v2(payer, o, amount, recipient)
    \/ \E j \in us_jobs, out \in Outputs : unshield_v2_callback(j, out)

SpecUnshield == InitUnshield /\ [][NextUnshield]_vars

\* ------------------------------------------------ MerkleTree: properties

\* Reference: the hash of the subtree of height `level` whose leftmost leaf
\* slot is pos * 2^level, over `leaves` padded with all-zero leaves.
RECURSIVE TreeHash(_, _, _)
TreeHash(level, pos, leaves) ==
    IF level = 0
    THEN IF pos < Len(leaves) THEN leaves[pos + 1] ELSE ZERO
    ELSE hash_merkle_node(TreeHash(level - 1, 2 * pos, leaves),
                          TreeHash(level - 1, 2 * pos + 1, leaves))

\* C1: after initialize() and any successful inserts L0..Ln, every inserted
\* leaf verifies against the current root with the proof get_proof returns
\* for its index.
C1_InclusionOfEveryLeaf ==
    MtInitialized =>
        \A i \in 0..(mt_next_index - 1) :
            verify_proof(mt_leaves[i + 1], get_proof(i).val, i, get_root).val

\* C2: in every state after initialize() (the state right after it
\* included), root is the root of the full depth-DEPTH tree over the
\* inserted leaves padded with zero leaves.
C2_RootIsFullTreeRoot ==
    MtInitialized => mt_root = TreeHash(MERKLE_TREE_DEPTH, 0, mt_leaves)

\* C6: an insert fails with MerkleTreeFull exactly when
\* next_index = 2^DEPTH, a failed insert changes nothing of the tree, and
\* an insert with next_index < 2^DEPTH succeeds and takes that index.
C6_InsertCapacity ==
    [][ (\E leaf \in LeafValues : insert(leaf)) =>
          /\ (mt_result'.err = "MerkleTreeFull")
                <=> (mt_next_index = Pow2(MERKLE_TREE_DEPTH))
          /\ (mt_result'.err = "MerkleTreeFull") =>
                UNCHANGED <<mt_root, mt_next_index, mt_filled_subtrees>>
          /\ (mt_next_index < Pow2(MERKLE_TREE_DEPTH)) =>
                /\ mt_result'.err = "Ok"
                /\ mt_result'.val = mt_next_index
                /\ mt_next_index' = mt_next_index + 1 ]_vars

\* C6 witness: the tree holds 2^DEPTH leaves (index 2^DEPTH - 1 was
\* accepted) and the next insert was rejected.
C6_Witness ==
    /\ mt_next_index = Pow2(MERKLE_TREE_DEPTH)
    /\ Len(mt_leaves) = Pow2(MERKLE_TREE_DEPTH)
    /\ mt_result.op = "insert"
    /\ mt_result.err = "MerkleTreeFull"

\* C7 as stated: next_index < 2^DEPTH in every state after initialize().
C7_NextIndexBelowCapacity ==
    MtInitialized => mt_next_index < Pow2(MERKLE_TREE_DEPTH)

\* C7 amended: next_index <= 2^DEPTH in every state after initialize()
\* (it equals 2^DEPTH once the tree is full).
C7_NextIndexAtMostCapacity ==
    MtInitialized => mt_next_index <= Pow2(MERKLE_TREE_DEPTH)

\* C7 witness: the full tree, where next_index = 2^DEPTH.
C7_Witness ==
    /\ MtInitialized
    /\ mt_next_index = Pow2(MERKLE_TREE_DEPTH)
    /\ mt_result.err = "Ok"

\* C10: right after initialize(), zero_hashes[0] is all-zero,
\* zero_hashes[i] = H(zero_hashes[i-1], zero_hashes[i-1]) for 1 <= i < DEPTH,
\* root = zero_hashes[DEPTH-1], root is not all-zero, and next_index = 0.
C10_InitializeState ==
    mt_result.op = "initialize" =>
        /\ Len(mt_zero_hashes) = MERKLE_TREE_DEPTH
        /\ mt_zero_hashes[1] = ZERO
        /\ \A i \in 2..MERKLE_TREE_DEPTH :
              mt_zero_hashes[i] =
                  hash_merkle_node(mt_zero_hashes[i - 1], mt_zero_hashes[i - 1])
        /\ mt_root = mt_zero_hashes[MERKLE_TREE_DEPTH]
        /\ mt_root # ZERO
        /\ mt_next_index = 0

\* C10 witness: initialize() has just run.
C10_Witness ==
    /\ mt_result.op = "initialize"
    /\ mt_next_index = 0
    /\ MtInitialized

\* C11: a successful insert returns the number of successful inserts made
\* since initialize() and leaves next_index one above it; a failed insert
\* leaves next_index as it was.
C11_InsertReturnsCount ==
    [][ (\E leaf \in LeafValues : insert(leaf)) =>
          IF mt_result'.err = "Ok"
          THEN /\ mt_result'.val = Len(mt_leaves)
               /\ mt_next_index' = Len(mt_leaves) + 1
               /\ Len(mt_leaves') = Len(mt_leaves) + 1
          ELSE /\ mt_next_index' = mt_next_index
               /\ mt_leaves' = mt_leaves ]_vars

\* C11 witness: the third successful insert (k = 2) has just returned.
C11_Witness ==
    /\ mt_result.op = "insert"
    /\ mt_result.err = "Ok"
    /\ mt_result.val = 2
    /\ mt_next_index = 3

\* C12: get_proof(index) fails with InvalidLeafIndex when
\* index >= next_index, otherwise returns MERKLE_TREE_DEPTH hashes, and in
\* both cases leaves the tree as it was.
C12_GetProofIndexAndLength ==
    [][ \A index \in ProofIndices :
          get_proof_call(index) =>
            /\ index >= mt_next_index =>
                  mt_result'.err = "InvalidLeafIndex"
            /\ index < mt_next_index =>
                  /\ mt_result'.err = "Ok"
                  /\ Len(mt_result'.path) = MERKLE_TREE_DEPTH
            /\ UNCHANGED <<mt_root, mt_next_index, mt_filled_subtrees,
                           mt_zero_hashes>> ]_vars

\* C12 witness: a proof was returned for the last leaf of the full tree.
C12_Witness ==
    /\ mt_result.op = "get_proof"
    /\ mt_result.err = "Ok"
    /\ mt_result.val = mt_next_index - 1
    /\ mt_next_index = Pow2(MERKLE_TREE_DEPTH)
    /\ Len(mt_result.path) = MERKLE_TREE_DEPTH

\* ---------------------------------------------- verify_proof: properties

\* Every value the model can offer as a leaf or as a proof element.
AllValues == LeafValues \cup PathValues

\* The hash verify_proof has reached below level k (Rust numbering) for
\* the given leaf, index and proof.
RECURSIVE HashBelow(_, _, _, _)
HashBelow(k, leaf, index, proof) ==
    IF k = 0 THEN leaf
    ELSE LET h == HashBelow(k - 1, leaf, index, proof)
         IN  IF (index \div Pow2(k - 1)) % 2 = 0
             THEN hash_merkle_node(h, proof[k])
             ELSE hash_merkle_node(proof[k], h)

VpAccepted == vp_out.done /\ vp_out.err = "Ok" /\ vp_out.val

\* C8: when verify_proof(leaf, path, i, root) returned true, it returns
\* false for the same path, index and root with any different leaf, and for
\* the same leaf, index and root with any one path element replaced by a
\* different value.
C8_WrongLeafOrPathRejected ==
    VpAccepted =>
        /\ \A l2 \in AllValues \ {vp_call.leaf} :
              ~verify_proof(l2, vp_call.proof, vp_call.index, vp_call.root).val
        /\ \A k \in 1..MERKLE_TREE_DEPTH :
              \A v \in AllValues \ {vp_call.proof[k]} :
                ~verify_proof(vp_call.leaf, [vp_call.proof EXCEPT ![k] = v],
                              vp_call.index, vp_call.root).val

\* C8 witness: a call that returned true, for a right-child position.
C8_Witness ==
    /\ VpAccepted
    /\ vp_call.index % 2 = 1
    /\ vp_call.leaf # ZERO

\* C9 as stated: when verify_proof(leaf, path, i, root) returned true, it
\* returns false for the same leaf, path and root with every index j # i.
C9_WrongIndexRejected ==
    VpAccepted =>
        \A j \in VerifyIndices \ {vp_call.index} :
            ~verify_proof(vp_call.leaf, vp_call.proof, j, vp_call.root).val

\* Index j takes the other side than i at some level below DEPTH where the
\* proof element differs from the hash reached so far.
DiffersWhereItMatters(i, j, leaf, proof) ==
    \E k \in 0..(MERKLE_TREE_DEPTH - 1) :
        /\ (i \div Pow2(k)) % 2 # (j \div Pow2(k)) % 2
        /\ proof[k + 1] # HashBelow(k, leaf, i, proof)

\* C9 amended: when verify_proof(leaf, path, i, root) returned true, it
\* returns false for every index j that takes the other side than i at a
\* level below DEPTH where the path element differs from the running
\* hash, and true for every other j.
C9_WrongIndexRejectedWhereItMatters ==
    VpAccepted =>
        \A j \in VerifyIndices :
            verify_proof(vp_call.leaf, vp_call.proof, j, vp_call.root).val
              <=> ~DiffersWhereItMatters(vp_call.index, j, vp_call.leaf,
                                         vp_call.proof)

\* C9 witness: an accepted call for which both kinds of other index exist:
\* one that differs where it matters and one beyond the tree that does not.
C9_Witness ==
    /\ VpAccepted
    /\ vp_call.index = 5
    /\ vp_call.proof[1] # vp_call.leaf
    /\ DiffersWhereItMatters(vp_call.index, 4, vp_call.leaf, vp_call.proof)
    /\ ~DiffersWhereItMatters(vp_call.index,
                              vp_call.index + Pow2(MERKLE_TREE_DEPTH),
                              vp_call.leaf, vp_call.proof)

\* ------------------------------------------------------ ledger: properties

NoDuplicates(seq) ==
    \A i, k \in 1..Len(seq) : seq[i] = seq[k] => i = k

\* No nullifier is held twice, and use_nullifier refuses every held one.
UsedNullifiersRejected ==
    /\ NoDuplicates(nr_used)
    /\ \A h \in Nullifiers :
          is_used(nr_used, h) =>
              use_nullifier(nr_used, nr_count, h).err = "NullifierAlreadyUsed"

\* C3: once a nullifier is in the registry it stays there, use_nullifier on
\* it fails with NullifierAlreadyUsed, no claim instruction that names it
\* succeeds or changes the registry, and used_nullifiers never holds a
\* nullifier twice.
C3_NullifierSpentOnce ==
    /\ UsedNullifiersRejected
    /\ [][ /\ UsedNullifiersRejected'
           /\ \A h \in Nullifiers :
             is_used(nr_used, h) =>
                 /\ is_used(nr_used', h)
                 /\ \/ (lg_result'.err # "Ok" /\ nr_used' = nr_used)
                    \/ ~ \/ \E a \in Amounts : claim_with_proof(a, h)
                         \/ \E id \in PoolIds : claim_from_pool(id, h)
                         \/ \E o \in Offsets : shielded_claim(o, h) ]_vars

\* C3 witness: a claim was just rejected for a spent nullifier while the
\* registry is full.
C3_Witness ==
    /\ lg_result = [op |-> "claim_with_proof", err |-> "NullifierAlreadyUsed"]
    /\ Len(nr_used) = MAX_NULLIFIERS

\* C5: when the callback of a shielded_claim job reports failure, the
\* nullifier of that job is not in the registry afterwards; when the
\* callback of a shielded_deposit job reports failure, the vault no longer
\* holds the amount that job deposited.
C5_FailedJobMutatedNothing ==
    [][ \A j \in jobs :
          /\ shielded_claim_callback(j, "Failure")
                => ~is_used(nr_used', j.nullifier)
          /\ shielded_deposit_callback(j, "Failure")
                => vault' = vault - j.amount ]_vars

\* ---------------------------------------------- private_transfer: properties

\* C4: a private_transfer callback that carries a failure returns
\* ComputationFailed and changes no user account; one that carries Success
\* returns Ok and, in that one step, gives the receiver the second
\* ciphertext and the sender the first, both with the output's nonce and
\* the current time, and changes no other account.
C4_TransferCallbackAtomic ==
    [][ \A j \in pt_jobs, out \in TransferOutputs :
          private_transfer_callback(j, out) =>
            IF out.status # "Success"
            THEN /\ pt_result'.err = "ComputationFailed"
                 /\ ua' = ua
            ELSE /\ pt_result'.err = "Ok"
                 /\ ua'[j.receiver] =
                        [encrypted_balance |-> out.ct1,
                         balance_nonce |-> out.nonce, last_updated |-> clock]
                 /\ j.sender # j.receiver =>
                        ua'[j.sender] =
                            [encrypted_balance |-> out.ct0,
                             balance_nonce |-> out.nonce,
                             last_updated |-> clock]
                 /\ \A u \in Users \ {j.sender, j.receiver} : ua'[u] = ua[u]
      ]_vars

\* C4 witness: a failure callback has just been delivered for a transfer
\* between two accounts that an earlier Success callback had updated at
\* another time.
C4_Witness ==
    /\ pt_result = [op |-> "private_transfer_callback",
                    err |-> "ComputationFailed"]
    /\ ua["alice"].balance_nonce # 0
    /\ ua["bob"].balance_nonce # 0
    /\ ua["alice"].encrypted_balance # ua["bob"].encrypted_balance
    /\ ua["alice"].last_updated < clock

\* C13: on every reachable registry, use_nullifier(h) fails with
\* NullifierAlreadyUsed when h is present (full registry or not), fails with
\* NullifierRegistryFull when h is absent and MAX_NULLIFIERS entries are
\* held, and otherwise appends h and adds one to count; a failure returns
\* used_nullifiers and count as they were.
C13_UseNullifierOutcomes ==
    \A h \in Nullifiers :
        LET r == use_nullifier(nr_used, nr_count, h)
        IN  IF is_used(nr_used, h)
            THEN /\ r.err = "NullifierAlreadyUsed"
                 /\ r.used = nr_used
                 /\ r.count = nr_count
            ELSE IF Len(nr_used) >= MAX_NULLIFIERS
            THEN /\ r.err = "NullifierRegistryFull"
                 /\ r.used = nr_used
                 /\ r.count = nr_count
            ELSE /\ r.err = "Ok"
                 /\ r.used = Append(nr_used, h)
                 /\ r.count = nr_count + 1

\* C13 witness: the registry is full, holds nullifier 1 and lacks
\* nullifier 3, and a claim has just been refused for lack of room.
C13_Witness ==
    /\ Len(nr_used) = MAX_NULLIFIERS
    /\ nr_count = MAX_NULLIFIERS
    /\ is_used(nr_used, 1)
    /\ ~is_used(nr_used, 3)
    /\ lg_result.err = "NullifierRegistryFull"

\* What add_commitment returns on the current ledger, for every commitment.
AddCommitmentOutcomes ==
    \A c \in Commitments :
        LET r == add_commitment(ct_commitments, ct_count, ct_root, c)
            k == Len(ct_commitments)
        IN  IF k >= MAX_COMMITMENTS
            THEN /\ r.err = "CommitmentTreeFull"
                 /\ r.commitments = ct_commitments
                 /\ r.count = ct_count
                 /\ r.root = ct_root
            ELSE /\ r.err = "Ok"
                 /\ r.val = k
                 /\ Len(r.commitments) = k + 1
                 /\ r.commitments[k + 1] = c
                 /\ \A i \in 1..k : r.commitments[i] = ct_commitments[i]

\* C14: on every reachable ledger, add_commitment fails with
\* CommitmentTreeFull when MAX_COMMITMENTS commitments are stored and then
\* returns the ledger as it was; otherwise it returns the number of
\* commitments stored so far as the index and stores the commitment at
\* that position; and no step changes or removes a stored commitment.
C14_AddCommitmentAppendOnly ==
    /\ [] AddCommitmentOutcomes
    /\ [][ /\ Len(ct_commitments') >= Len(ct_commitments)
           /\ \A i \in 1..Len(ct_commitments) :
                 ct_commitments'[i] = ct_commitments[i] ]_vars

\* C14 witness: a deposit has just been refused by the full ledger, whose
\* two positions hold different commitments in the order 2, 1.
C14_Witness ==
    /\ lg_result.err = "CommitmentTreeFull"
    /\ Len(ct_commitments) = MAX_COMMITMENTS
    /\ ct_commitments[1] = 2
    /\ ct_commitments[2] = 1

\* C15: no commitment value occurs at two different indices of
\* CommitmentTree.commitments.
C15_CommitmentsUnique ==
    NoDuplicates(ct_commitments)

\* ------------------------------------------- encrypted balances: properties

\* A record carries a nullifier hash exactly when it is spent.
NullifierSetWhenSpent ==
    \A i \in 1..Len(eb_records) :
        eb_records[i].is_spent <=> (eb_records[i].nullifier_hash # None)

\* C16: withdraw_encrypted_balance on a spent record fails with AlreadySpent
\* and changes nothing; a spent record stays spent and keeps its
\* nullifier_hash in every step; and in every state nullifier_hash is Some
\* exactly when is_spent is true.
C16_SpentAtMostOnce ==
    /\ NullifierSetWhenSpent
    /\ [][ /\ NullifierSetWhenSpent'
           /\ \A i \in 1..Len(eb_records) :
             eb_records[i].is_spent =>
               /\ Len(eb_records') >= i
               /\ eb_records'[i] = eb_records[i]
               /\ ( /\ eb_result'.op = "withdraw_encrypted_balance"
                    /\ \E h \in EbNullifiers, amount \in EbAmounts :
                          withdraw_encrypted_balance(h, amount,
                                                     eb_records[i].owner,
                                                     i - 1) )
                       => /\ eb_result'.err = "AlreadySpent"
                          /\ UNCHANGED <<eb_records, eb_total_balances,
                                         eb_total_locked, eb_lamports>>
         ]_vars

\* C16 witness: a second withdrawal of record 0, which was spent with
\* nullifier 1, has just been refused while the vault still holds funds.
C16_Witness ==
    /\ eb_result = [op |-> "withdraw_encrypted_balance",
                    err |-> "AlreadySpent"]
    /\ Len(eb_records) >= 1
    /\ eb_records[1].is_spent
    /\ eb_records[1].nullifier_hash = Some(1)
    /\ eb_total_locked > 0

\* ------------------------------------------- encrypted_transfer: properties

C18_InitializeByDenomination ==
    /\ \A d \in Denominations : from_id(to_id(d)) = [err |-> "Ok", val |-> d]
    /\ [][ \A pool_id \in DpPoolIds :
             call_initialize(pool_id) =>
               IF pool_id \notin 0..4
               THEN /\ dp_result'.err = "InvalidDenomination"
                    /\ dp' = dp
               ELSE /\ dp_result'.err = "Ok"
                    /\ dp'.amount = (CASE pool_id = 0 -> 1
                                       [] pool_id = 1 -> 5
                                       [] pool_id = 2 -> 10
                                       [] pool_id = 3 -> 50
                                       [] pool_id = 4 -> 100)
                    /\ dp'.deposit_count = 0
                    /\ dp'.claim_count = 0
                    /\ dp'.total_deposited = 0
                    /\ dp'.total_claimed = 0 ]_vars

\* C18 witness: initialize with an invalid pool_id has just been refused on
\* a 0.5 SOL pool that had recorded deposits and claims.
C18_Witness ==
    /\ dp_result = [op |-> "initialize", err |-> "InvalidDenomination"]
    /\ dp.exists
    /\ dp.amount = 5
    /\ dp.deposit_count > 0
    /\ dp.claim_count > 0

\* C19: a record_deposit() that succeeds adds exactly 1 to deposit_count
\* and exactly the pool's amount to total_deposited and leaves claim_count
\* and total_claimed alone; one that fails does so because deposit_count + 1
\* or total_deposited + amount does not fit a u64.
C19_RecordDepositExact ==
    [][ call_record_deposit =>
          IF dp_result'.err = "Ok"
          THEN /\ dp'.deposit_count = dp.deposit_count + 1
               /\ dp'.total_deposited = dp.total_deposited + dp.amount
               /\ dp'.claim_count = dp.claim_count
               /\ dp'.total_claimed = dp.total_claimed
               /\ dp'.amount = dp.amount
          ELSE \/ dp.deposit_count + 1 > U64_MAX
               \/ dp.total_deposited + dp.amount > U64_MAX ]_vars

\* C19 witness: the third deposit into a 0.5 SOL pool has just succeeded.
C19_Witness ==
    /\ dp_result = [op |-> "record_deposit", err |-> "Ok"]
    /\ dp.amount = 5
    /\ dp.deposit_count = 3
    /\ dp.total_deposited = 15

LedgersUnchanged ==
    UNCHANGED <<nr_used, nr_count, ct_commitments, ct_count, ct_root, pools,
                vault, jobs, eb_records, eb_total_balances, eb_total_locked,
                eb_lamports>>

\* Amount 0 is refused with InvalidAmount by the four instructions that
\* take an amount, and nothing is changed.
ZeroAmountRejected ==
    /\ (\E c \in Commitments : deposit_with_commitment(0, c))
          => lg_result'.err = "InvalidAmount" /\ LedgersUnchanged
    /\ (\E n \in Nullifiers : claim_with_proof(0, n))
          => lg_result'.err = "InvalidAmount" /\ LedgersUnchanged
    /\ (\E o \in Offsets : shielded_deposit(o, 0))
          => lg_result'.err = "InvalidAmount" /\ LedgersUnchanged
    /\ (\E owner \in EbOwners : deposit_encrypted_balance(0, owner))
          => eb_result'.err = "InvalidAmount" /\ LedgersUnchanged

\* deposit_to_pool and claim_from_pool with a pool id outside 0..4 are
\* refused with `err`, and nothing is changed.
BadPoolIdRejected(err) ==
    \A id \in PoolIds \ (0..4) :
        /\ (\E c \in Commitments : deposit_to_pool(id, c))
              => lg_result'.err = err /\ LedgersUnchanged
        /\ (\E n \in Nullifiers : claim_from_pool(id, n))
              => lg_result'.err = err /\ LedgersUnchanged

C22_ScanDetectsOwnCommitment ==
    kx_out.op = "scan_commitment" =>
        (kx_out.belongs <=> /\ kx_call.scan_priv = kx_call.recipient_priv
                            /\ kx_call.scan_spending = kx_call.spending
                            /\ kx_call.scan_eph = kx_call.ephemeral_priv)

\* C23: the shared secret the sender computes from the ephemeral secret and
\* the recipient's public key equals the one the recipient computes from
\* the private key and the ephemeral public key, and
\* decrypt_encrypted_balance returns the amount given to
\* create_encrypted_balance.
C23_SharedSecretSymmetric ==
    kx_out.op = "decrypt_encrypted_balance" =>
        /\ kx_out.sender_secret = kx_out.recipient_secret
        /\ kx_out.amount = kx_call.amount

\* C24: decrypt_amount(encrypt_amount(a, s, n), s, n) = a for every amount
\* a, shared secret s and nonce n.
C24_EncryptDecryptRoundTrip ==
    kx_out.op = "decrypt_amount" => kx_out.amount = kx_call.amount

\* C24 witness: the largest amount came back from a ciphertext that is not
\* the amount's own bytes.
C24_Witness ==
    /\ kx_out.op = "decrypt_amount"
    /\ kx_call.amount = Pow2(BYTE_BITS * AMOUNT_BYTES) - 1
    /\ kx_out.ciphertext # to_le_bytes(kx_call.amount)
    /\ kx_out.amount = kx_call.amount

\* ------------------------------------------- utilization_rate: properties

\* C26: utilization_rate() returns 0 when total_deposited is 0 and
\* otherwise the smaller of 100 and floor(total_claimed * 100 /
\* total_deposited), computed without overflow, so a value in 0..100, on
\* every pool record the methods can produce.
C26_UtilizationRate ==
    dp_result.op = "utilization_rate" =>
        /\ dp_result.err = "Ok"
        /\ dp_result.val \in 0..100
        /\ dp_result.val =
              (IF dp.total_deposited = 0 THEN 0
               ELSE LET rate == (dp.total_claimed * 100)
                                    \div dp.total_deposited
                    IN  IF rate < 100 THEN rate ELSE 100)

\* ------------------------------------------- shield and unshield: properties

\* C27: whatever the order of unshield_v2 submissions and
\* unshield_v2_callback deliveries, the pool vault pays out at most once for
\* each UserCommitmentAccount: no callback transfers funds for an account
\* that is already spent.
C27_PaidOncePerCommitment ==
    \A p \in DOMAIN us_paid : us_paid[p] <= 1

\* --------------------------------------- concurrent private_transfer jobs

\* C28: no two pending private_transfer jobs touch the same UserAccount, as
\* sender or as receiver.
C28_OnePendingJobPerAccount ==
    \A j1, j2 \in pt_jobs :
        j1 # j2 =>
            {j1.sender, j1.receiver} \cap {j2.sender, j2.receiver} = {}

\* C29: every submitted encrypted_transfer job leaves Pending: once its
\* callback has been delivered (the delivery is exactly once, so the job is
\* no longer queued), the TransferAccount is Completed or Failed.
C29_JobLeavesPending ==
    \A k \in EtKeys :
        (/\ et_accounts[k].exists
         /\ \A j \in et_jobs : <<j.sender, j.offset>> # k)
            => et_accounts[k].status \in {"Completed", "Failed"}

\* C30: a callback delivered with an output that is not Success returns an
\* error: here for the callbacks of shield, anonymous_transfer and
\* unshield_v2.
C30_FailureOutputIsAnError ==
    [][ \/ us_result'.err # "Ok"
        \/ ~ \E j \in us_jobs :
                \/ shield_callback(j, "Failure")
                \/ anonymous_transfer_callback(j, "Failure")
                \/ unshield_v2_callback(j, "Failure") ]_vars

\* C31: claim_from_pool on a pool whose deposit_count is 0 fails, and the
\* failed claim uses no nullifier, takes nothing from the vault and changes
\* no pool counter.
C31_ClaimFromEmptyPoolRollsBack ==
    [][ \A id \in PoolAccounts :
          \/ lg_result'.err # "Ok" /\ LedgersUnchanged
          \/ ~ /\ pools[id].exists
               /\ pools[id].deposit_count = 0
               /\ \E n \in Nullifiers : claim_from_pool(id, n) ]_vars

\* C31 witness: a claim on the empty pool got as far as record_claim (the
\* nullifier was fresh and the vault could pay) and was refused there.
C31_Witness ==
    /\ lg_result = [op |-> "claim_from_pool",
                    err |-> "InsufficientPoolBalance"]
    /\ pools[0].exists
    /\ pools[0].deposit_count = 0
    /\ vault >= pools[0].amount
    /\ nr_count < MAX_NULLIFIERS

\* C32: on a pool record, after initialize and any record_deposit and
\* record_claim calls: deposit_count >= 0, total_deposited is amount times
\* (deposit_count + claim_count), total_claimed is amount times claim_count,
\* and total_claimed <= total_deposited.
C32_PoolTotals ==
    dp.exists =>
        /\ dp.deposit_count >= 0
        /\ dp.total_deposited = dp.amount * (dp.deposit_count + dp.claim_count)
        /\ dp.total_claimed = dp.amount * dp.claim_count
        /\ dp.total_claimed <= dp.total_deposited

\* C33: a record_deposit or record_claim call that returns Overflow or
\* Underflow leaves every counter of the pool as it was before the call.
C33_FailedCallChangesNothing ==
    [][ (/\ dp_result'.op \in {"record_deposit", "record_claim"}
         /\ dp_result'.err \in {"Overflow", "Underflow"})
            => dp' = dp ]_vars

\* C34: the private_transfer circuit conserves value: with
\* 0 < transfer_amount <= sender_balance the sender gets
\* sender_balance - transfer_amount and the receiver
\* receiver_balance + transfer_amount, not wrapped; otherwise both balances
\* come back unchanged with is_valid false; and in every case the two new
\* balances add up to the two old ones.
C34_CircuitConservesValue ==
    kx_out.op = "private_transfer" =>
        LET c == kx_call
            o == kx_out.out
        IN  /\ ~o.aborted
            /\ IF 0 < c.transfer_amount /\ c.transfer_amount <= c.sender_balance
               THEN /\ o.new_sender_balance
                           = c.sender_balance - c.transfer_amount
                    /\ o.new_receiver_balance
                           = c.receiver_balance + c.transfer_amount
               ELSE /\ o.new_sender_balance = c.sender_balance
                    /\ o.new_receiver_balance = c.receiver_balance
                    /\ ~o.is_valid
            /\ o.new_sender_balance + o.new_receiver_balance
                   = c.sender_balance + c.receiver_balance

\* C35: the root of the commitment ledger is computed over all stored
\* commitments, so adding a commitment to a non-empty ledger changes it.
C35_RootCoversAllCommitments ==
    [][ (ct_count > 0 /\ Len(ct_commitments') = Len(ct_commitments) + 1)
            => ct_root' # ct_root ]_vars

\* C36: the shared secret the stealth module computes for a private key and
\* a public key, on the sender's side of generate_stealth_address and on
\* the scanner's side of scan_commitment, is the one
\* encryption::compute_shared_secret gives for the same pair.
C36_SameKeyAgreement ==
    kx_out.op = "scan_commitment" =>
        LET c == kx_call
            recipient_pub == derive_public_key(c.recipient_priv)
            ephemeral_pub == derive_public_key(c.scan_eph)
        IN  /\ stealth_compute_shared_secret(c.ephemeral_priv, recipient_pub)
                   = compute_shared_secret(c.ephemeral_priv, recipient_pub)
            /\ stealth_compute_shared_secret(c.scan_priv, ephemeral_pub)
                   = compute_shared_secret(c.scan_priv, ephemeral_pub)

\* C37: NullifierRegistry.count is the length of used_nullifiers and at
\* most MAX_NULLIFIERS; a successful claim_with_proof, claim_from_pool or
\* shielded_claim appends exactly one nullifier that was not used, to a
\* registry that was not full; and nothing else changes the registry.
C37_OneNullifierPerClaim ==
    /\ [](nr_count = Len(nr_used) /\ nr_count <= MAX_NULLIFIERS)
    /\ [][ IF /\ lg_result'.op \in {"claim_with_proof", "claim_from_pool",
                                    "shielded_claim"}
              /\ lg_result'.err = "Ok"
           THEN /\ Len(nr_used) < MAX_NULLIFIERS
                /\ nr_count' = nr_count + 1
                /\ \E h \in Nullifiers :
                      /\ ~is_used(nr_used, h)
                      /\ nr_used' = Append(nr_used, h)
           ELSE nr_used' = nr_used /\ nr_count' = nr_count ]_vars

\* C37 witness: the registry is full, a claim_from_pool among the claims
\* that filled it, and a further claim has just been refused for that.
C37_Witness ==
    /\ nr_count = MAX_NULLIFIERS
    /\ lg_result.err = "NullifierRegistryFull"
    /\ pools[0].claim_count > 0

\* C38: a successful withdraw_encrypted_balance on a record releases from
\* the vault the amount deposit_encrypted_balance locked for that record.
C38_WithdrawReleasesDeposit ==
    [][ \A i \in 1..Len(eb_records) :
          (~eb_records[i].is_spent /\ eb_records'[i].is_spent)
              => eb_lamports - eb_lamports' = eb_records[i].locked ]_vars

\* C39: for every UserAccount, after any deposits and withdrawals,
\* total_withdrawals <= total_deposits.
C39_WithdrawalsWithinDeposits ==
    \A u \in Users :
        ua_totals[u].total_withdrawals <= ua_totals[u].total_deposits

\* C40: in stealf_pool, after any deposits and withdrawals, the lamports
\* of the Pool account are at least its rent-exempt minimum and
\* total_withdrawals <= total_deposits.
C40_PoolKeepsRentAndTotals ==
    sp_pool.exists =>
        /\ sp_lamports >= minimum_balance(POOL_LEN + 1)
        /\ sp_pool.total_withdrawals <= sp_pool.total_deposits

====
